---- MODULE Spec2Model ----
(***************************************************************************)
(* Model of FirestoreSchemaExplorer (src/main.py): the traversal of a      *)
(* hierarchical document store, each remote call bounded by                *)
(* _run_with_timeout, and the report it accumulates.                       *)
(*                                                                         *)
(* Strings of the report are modelled as records (one per line) that keep  *)
(* the marker kind and the values embedded in the line.  A path is the     *)
(* sequence of its '/'-separated segments.                                 *)
(***************************************************************************)
EXTENDS Integers, Sequences, FiniteSets, TLC

(***************************************************************************)
(* Bounds of the model.                                                    *)
(***************************************************************************)
\* max_depth ranges over 1..MaxDepth
MaxDepth == 3
\* max_docs ranges over 1..MaxDocs
MaxDocs == 2
\* at most MaxFaults remote calls or client calls fail or time out in a run
MaxFaults == 2

\* directly described arrays hold at most MaxArrayLen elements
MaxArrayLen == 3
\* array_sample_size ranges over 0..MaxSample in direct calls of describe_type
MaxSample == 3
\* directly described maps hold at most MaxKeys keys at each level
MaxKeys == 2

(***************************************************************************)
(* Program constants.                                                      *)
(***************************************************************************)
\* collection.limit(1000) of the count query
CountLimit == 1000

(***************************************************************************)
(* Python values.  None is modelled by NoneV, a list by a sequence.        *)
(***************************************************************************)
NoneV == [none |-> TRUE, val |-> <<>>]
Some(v) == [none |-> FALSE, val |-> v]
\* Python truthiness of an Optional[list]: None and [] are falsy
Truthy(r) == ~r.none /\ Len(r.val) > 0
\* the idiom `x or []`
OrEmpty(r) == IF Truthy(r) THEN r.val ELSE <<>>

\* not a minimum: the first argument
Min_First(a, b) == a

Min(a, b) == IF a <= b THEN a ELSE b

SeqToSet(s) == {s[k] : k \in 1..Len(s)}

\* a query that ignores its limit
Take_All(s, n) == s

\* first n elements of s
Take(s, n) == SubSeq(s, 1, Min(n, Len(s)))

(***************************************************************************)
(* String order.  Every identifier the stores use, in Python's str order;  *)
(* sorted() compares by position in this list.                             *)
(***************************************************************************)
Alphabet == <<"a", "age", "b", "d1", "d2", "d3", "d4", "meta", "name", "s", "t", "zip">>

Rank(str) == CHOOSE k \in 1..Len(Alphabet) : Alphabet[k] = str

\* insertion of item e into a list of items sorted by key
RECURSIVE InsertByKey(_, _)
InsertByKey(e, s) ==
    IF s = <<>> THEN <<e>>
    ELSE IF Rank(e.key) < Rank(Head(s).key) THEN <<e>> \o s
    ELSE <<Head(s)>> \o InsertByKey(e, Tail(s))

\* data.items() left in insertion order
SortedItems_Insertion(items) == items

\* sorted(data.items()) for a dict given as its items in insertion order
RECURSIVE SortedItems(_)
SortedItems(items) ==
    IF items = <<>> THEN <<>>
    ELSE InsertByKey(Head(items), SortedItems(Tail(items)))

(***************************************************************************)
(* Report lines.  t is the kind of line (the literal marker text it        *)
(* carries), p a path, n a number (indentation in spaces, a count), s a    *)
(* string (an identifier, an error text), ty a type label, x a block of    *)
(* nested text.                                                            *)
(***************************************************************************)
Ln(t) == [t |-> t, p |-> <<>>, n |-> 0, s |-> "", ty |-> <<>>, x |-> <<>>]

\* "  " * level
indent(level) == 2 * level

(***************************************************************************)
(* Document values.  py is the Python type of the value, caps the          *)
(* attributes hasattr() finds on it, items the elements of a list or the   *)
(* (key, value) items of a dict in insertion order, path the .path of a    *)
(* reference.                                                              *)
(***************************************************************************)
\* one (key, value) item of a dict
Item(key, value) == [key |-> key, value |-> value]
Val(py, caps, items, path) == [py |-> py, caps |-> caps, items |-> items, path |-> path]
VNone == Val("NoneType", {}, <<>>, "")
VStr == Val("str", {}, <<>>, "")
VInt == Val("int", {}, <<>>, "")
VBool == Val("bool", {}, <<>>, "")
VFloat == Val("float", {}, <<>>, "")
VBytes == Val("bytes", {}, <<>>, "")
VTime == Val("DatetimeWithNanoseconds", {"timestamp"}, <<>>, "")
VGeo == Val("GeoPoint", {"latitude", "longitude"}, <<>>, "")
VRef(path) == Val("DocumentReference", {"path"}, <<>>, path)
VList(elems) == Val("list", {}, elems, "")
VDict(items) == Val("dict", {}, items, "")

\* a mapping that labels every type "string"
TYPE_MAPPING_AnyType(py) == "string"

\* TYPE_MAPPING: exact Python type -> base label ("" when the type is not a key).
\* datetime and GeoPoint values never reach the mapping: the hasattr checks
\* of describe_type return first.
TYPE_MAPPING(py) ==
    CASE py = "str" -> "string"
      [] py = "bool" -> "boolean"
      [] py = "int" -> "integer"
      [] py = "float" -> "float"
      [] py = "dict" -> "map"
      [] py = "list" -> "array"
      [] py = "NoneType" -> "null"
      [] py = "datetime" -> "timestamp"
      [] py = "GeoPoint" -> "geopoint"
      [] py = "bytes" -> "bytes"
      [] OTHER -> ""

(***************************************************************************)
(* Type labels are sequences of tokens whose concatenation is the label    *)
(* string; TokenOrder lists the tokens in Python's str order, so that      *)
(* comparing labels token by token is comparing the strings.               *)
(***************************************************************************)
TokenOrder == <<",", ">", "?", "Decimal", "a/d1", "array<", "b/d1", "boolean", "bytes",
                "float", "geopoint", "integer", "map", "mixed:", "null",
                "reference->", "string", "timestamp">>

TokRank(tok) == CHOOSE k \in 1..Len(TokenOrder) : TokenOrder[k] = tok

\* a < b for label strings
RECURSIVE LabelLess(_, _)
LabelLess(a, b) ==
    IF b = <<>> THEN FALSE
    ELSE IF a = <<>> THEN TRUE
    ELSE IF Head(a) = Head(b) THEN LabelLess(Tail(a), Tail(b))
    ELSE TokRank(Head(a)) < TokRank(Head(b))

\* the labels in descending order
RECURSIVE SortedLabels_Descending(_)
SortedLabels_Descending(S) ==
    IF S = {} THEN <<>>
    ELSE LET m == CHOOSE x \in S : \A y \in S \ {x} : LabelLess(y, x)
         IN <<m>> \o SortedLabels_Descending(S \ {m})

\* sorted(element_types) of a set of labels
RECURSIVE SortedLabels(_)
SortedLabels(S) ==
    IF S = {} THEN <<>>
    ELSE LET m == CHOOSE x \in S : \A y \in S \ {x} : LabelLess(x, y)
         IN <<m>> \o SortedLabels(S \ {m})

\* ','.join(labels)
RECURSIVE JoinComma(_)
JoinComma(labels) ==
    IF labels = <<>> THEN <<>>
    ELSE IF Len(labels) = 1 THEN Head(labels)
    ELSE Head(labels) \o <<",">> \o JoinComma(Tail(labels))

RECURSIVE describe_type(_, _, _)

\* describe_type with the reference check before the timestamp and geopoint
\* checks
describe_type_PathFirst(value, sample_arrays, array_sample_size) ==
    IF value.py = "NoneType" THEN <<"null">>
    ELSE IF "path" \in value.caps THEN <<"reference->", value.path>>
    ELSE IF "timestamp" \in value.caps THEN <<"timestamp">>
    ELSE IF "longitude" \in value.caps /\ "latitude" \in value.caps THEN <<"geopoint">>
    ELSE IF TYPE_MAPPING(value.py) # "" THEN
        IF value.py = "list" THEN
            IF Len(value.items) = 0 THEN <<"array<", "?", ">">>
            ELSE IF sample_arrays THEN
                LET sample_size == Min(Len(value.items), array_sample_size)
                    element_types ==
                        {describe_type(value.items[i], sample_arrays, array_sample_size) :
                            i \in 1..sample_size}
                IN IF Cardinality(element_types) = 1
                   THEN <<"array<">> \o (CHOOSE l \in element_types : TRUE) \o <<">">>
                   ELSE <<"array<", "mixed:">> \o JoinComma(SortedLabels(element_types))
                            \o <<">">>
            ELSE <<"array<">>
                    \o describe_type(value.items[1], sample_arrays, array_sample_size)
                    \o <<">">>
        ELSE <<TYPE_MAPPING(value.py)>>
    ELSE <<value.py>>

\* describe_type with the elements sampled whatever sample_arrays says
describe_type_SamplesAlways(value, sample_arrays, array_sample_size) ==
    describe_type_PathFirst(value, TRUE, array_sample_size)

\* describe_type(value) under configuration (sample_arrays, array_sample_size)
describe_type(value, sample_arrays, array_sample_size) ==
    IF value.py = "NoneType" THEN <<"null">>
    ELSE IF "timestamp" \in value.caps THEN <<"timestamp">>
    ELSE IF "longitude" \in value.caps /\ "latitude" \in value.caps THEN <<"geopoint">>
    ELSE IF "path" \in value.caps THEN <<"reference->", value.path>>
    ELSE IF TYPE_MAPPING(value.py) # "" THEN
        IF value.py = "list" THEN
            IF Len(value.items) = 0 THEN <<"array<", "?", ">">>
            ELSE IF sample_arrays THEN
                LET sample_size == Min(Len(value.items), array_sample_size)
                    element_types ==
                        {describe_type(value.items[i], sample_arrays, array_sample_size) :
                            i \in 1..sample_size}
                IN IF Cardinality(element_types) = 1
                   THEN <<"array<">> \o (CHOOSE l \in element_types : TRUE) \o <<">">>
                   ELSE <<"array<", "mixed:">> \o JoinComma(SortedLabels(element_types))
                            \o <<">">>
            ELSE <<"array<">>
                    \o describe_type(value.items[1], sample_arrays, array_sample_size)
                    \o <<">">>
        ELSE <<TYPE_MAPPING(value.py)>>
    ELSE <<value.py>>

\* the line f"{indent}- `{key}` ({field_type})" with indent = 2 * level spaces
FieldLine(level, key, field_type) ==
    [Ln("field") EXCEPT !.n = 2 * level, !.s = key, !.ty = field_type]

(***************************************************************************)
(* describe_fields(data, level, output_lines): acc carries output_lines    *)
(* and stats["fields"], both updated once per key.                         *)
(***************************************************************************)
RECURSIVE describe_fields(_, _, _, _, _)

\* the loop that does not count the fields of nested maps
RECURSIVE DescribeSorted_NestedUncounted(_, _, _, _, _)
DescribeSorted_NestedUncounted(sorted, level, acc, sample_arrays, array_sample_size) ==
    IF sorted = <<>> THEN acc
    ELSE LET key == Head(sorted).key
             value == Head(sorted).value
             field_type == describe_type(value, sample_arrays, array_sample_size)
             acc1 == [lines |-> Append(acc.lines, FieldLine(level, key, field_type)),
                      fields |-> acc.fields + 1]
             acc2 == IF value.py = "dict"
                     THEN [lines |-> describe_fields(value.items, level + 1, acc1,
                                         sample_arrays, array_sample_size).lines,
                           fields |-> acc1.fields]
                     ELSE acc1
         IN DescribeSorted_NestedUncounted(Tail(sorted), level, acc2,
                                           sample_arrays, array_sample_size)

RECURSIVE DescribeSorted(_, _, _, _, _)
DescribeSorted(sorted, level, acc, sample_arrays, array_sample_size) ==
    IF sorted = <<>> THEN acc
    ELSE LET key == Head(sorted).key
             value == Head(sorted).value
             field_type == describe_type(value, sample_arrays, array_sample_size)
             acc1 == [lines |-> Append(acc.lines, FieldLine(level, key, field_type)),
                      fields |-> acc.fields + 1]
             acc2 == IF value.py = "dict"
                     THEN describe_fields(value.items, level + 1, acc1,
                                          sample_arrays, array_sample_size)
                     ELSE acc1
         IN DescribeSorted(Tail(sorted), level, acc2, sample_arrays, array_sample_size)

describe_fields(data, level, acc, sample_arrays, array_sample_size) ==
    DescribeSorted(SortedItems(data), level, acc, sample_arrays, array_sample_size)


(***************************************************************************)
(* The remote store (an external collaborator): what its calls answer when *)
(* they succeed.  A document is its id, its data (to_dict(), as items in   *)
(* insertion order), the path of its reference and the ids its             *)
(* reference.collections() lists.  A collection is the documents it        *)
(* streams first (docs) and the number of documents it holds (total).      *)
(***************************************************************************)
Doc(id, data, ref, subs) == [id |-> id, data |-> data, ref |-> ref, subs |-> subs]
Col(docs, total) == [docs |-> docs, total |-> total]
EmptyCol == Col(<<>>, 0)

\* a store laid out as Firestore lays it out: two root collections, nested
\* subcollections, a document without data, a collection beyond the count cap
StoreNested ==
    [roots |-> <<"a", "b">>,
     cols |-> (<<"a">> :> Col(<<Doc("d1", <<Item("name", VStr), Item("age", VInt),
                                            Item("meta", VDict(<<Item("zip", VInt)>>))>>,
                                  <<"a", "d1">>, <<"t", "s">>),
                              Doc("d2", <<>>, <<"a", "d2">>, <<"s">>)>>, 2))
          @@ (<<"a", "d1", "s">> :> Col(<<Doc("d1", <<Item("age", VList(<<VInt, VStr>>))>>,
                                              <<"a", "d1", "s", "d1">>, <<"t">>)>>, 1))
          @@ (<<"b">> :> Col(<<Doc("d1", <<Item("age", VInt)>>, <<"b", "d1">>, <<>>),
                               Doc("d2", <<Item("name", VRef("a/d1"))>>, <<"b", "d2">>, <<>>),
                               Doc("d3", <<Item("zip", VTime)>>, <<"b", "d3">>, <<>>),
                               Doc("d4", <<Item("zip", VGeo)>>, <<"b", "d4">>, <<>>)>>,
                             1200))]

\* a store whose listings repeat and refer back: a document lists the same
\* child twice, and a document of another collection carries the reference
\* of an explored one
StoreCyclic ==
    [roots |-> <<"a", "b">>,
     cols |-> (<<"a">> :> Col(<<Doc("d1", <<Item("name", VStr)>>, <<"a", "d1">>,
                                    <<"s", "s">>)>>, 1))
          @@ (<<"a", "d1", "s">> :> Col(<<Doc("d1", <<Item("age", VInt)>>,
                                              <<"a", "d1">>, <<"s">>)>>, 1))
          @@ (<<"b">> :> Col(<<Doc("d2", <<Item("age", VInt)>>, <<"a", "d1">>,
                                    <<"s">>)>>, 1))]

\* a store that lists neither its roots nor its documents in sorted order,
\* with a subcollection under the first of two documents that have data
StoreSiblings ==
    [roots |-> <<"b", "a">>,
     cols |-> (<<"b">> :> Col(<<Doc("d2", <<Item("name", VStr)>>, <<"b", "d2">>, <<"t">>),
                               Doc("d1", <<Item("age", VInt)>>, <<"b", "d1">>, <<>>)>>, 2))
          @@ (<<"b", "d2", "t">> :> Col(<<Doc("d1", <<Item("zip", VInt)>>,
                                              <<"b", "d2", "t", "d1">>, <<>>)>>, 1))
          @@ (<<"a">> :> Col(<<Doc("d1", <<Item("name", VStr)>>, <<"a", "d1">>, <<>>)>>, 1))]

\* a database without collections
StoreEmpty == [roots |-> <<>>, cols |-> (<<"a">> :> EmptyCol)]

Stores == {StoreNested, StoreCyclic, StoreEmpty}

\* the collection the store keeps at a path (none: it streams nothing)
ColAt(store, path) == IF path \in DOMAIN store.cols THEN store.cols[path] ELSE EmptyCol

\* f"{doc.reference.path}/{subcol.id}"
SubcolPath(doc, subcol_id) == doc.ref \o <<subcol_id>>

(***************************************************************************)
(* Exceptions.                                                             *)
(***************************************************************************)
\* what a remote operation may raise
OpErrors == {"Exception", "PermissionDenied"}
\* what a call of the client outside the bounded calls may raise
\* (db.collection(path), doc.to_dict())
ClientErrors == {"Exception", "PermissionDenied", "TimeoutError"}

\* an `except Exception` clause that catches every class
IsException_Any(e) == TRUE

\* the classes an `except Exception` clause catches (KeyboardInterrupt and the
\* other BaseExceptions pass it)
IsException(e) == e \in {"Exception", "PermissionDenied", "TimeoutError", "IndexError"}
\* a test of the class that never matches
IsPermissionDenied_Never(e) == FALSE

\* isinstance(e, PermissionDenied)
IsPermissionDenied(e) == e = "PermissionDenied"
\* isinstance(e, TimeoutError), the class of this module
IsTimeoutError(e) == e = "TimeoutError"

(***************************************************************************)
(* generate_ascii_tree.  _collection_tree is a dict: a sequence of         *)
(* entries [path, doc_count, doc_count_str] in insertion order.  A line of *)
(* the tree is its connectors (pfx), the name it shows and the count.      *)
(* Connectors: "L" last sibling, "T" sibling, "S" blank continuation,      *)
(* "I" bar continuation.                                                   *)
(***************************************************************************)
TreeLine(kind, pfx, name, n) == [kind |-> kind, pfx |-> pfx, name |-> name, n |-> n]

\* sorted() of a set of strings
RECURSIVE SortedStrings(_)
SortedStrings(S) ==
    IF S = {} THEN <<>>
    ELSE LET m == CHOOSE x \in S : \A y \in S : Rank(x) <= Rank(y)
         IN <<m>> \o SortedStrings(S \ {m})

\* the entry of _collection_tree for top-level collection `name`
TopEntry(ctree, name) ==
    ctree[CHOOSE k \in 1..Len(ctree) : ctree[k].path = <<name>>]

\* subcollections[parent_collection][doc_id]: the entries appended for this
\* parent and document, in the order _collection_tree holds them
IsSubOf(e, parent, doc_id) == Len(e.path) > 1 /\ e.path[1] = parent /\ e.path[2] = doc_id
SubEntries(ctree, parent, doc_id) ==
    LET RECURSIVE Pick(_)
        Pick(k) == IF k > Len(ctree) THEN <<>>
                   ELSE IF IsSubOf(ctree[k], parent, doc_id)
                        THEN <<ctree[k]>> \o Pick(k + 1)
                        ELSE Pick(k + 1)
    IN Pick(1)

\* path.split('/')[2] of an entry whose path has a single '/' raises IndexError
TreeRaises(ctree) == \E k \in 1..Len(ctree) : Len(ctree[k].path) = 2

SubcolLines(subs, cont) ==
    [k \in 1..Len(subs) |->
        TreeLine("subcol", cont \o <<IF k = Len(subs) THEN "L" ELSE "T">>,
                 subs[k].path[3], subs[k].doc_count)]

\* lines 470-482: the loop over sorted_docs
DocLinesOf(ctree, parent, is_last_collection, sorted_docs) ==
    LET continuation == IF is_last_collection THEN "S" ELSE "I"
        RECURSIVE Each(_)
        Each(j) ==
            IF j > Len(sorted_docs) THEN <<>>
            ELSE LET is_last_doc == j = Len(sorted_docs)
                     doc_id == sorted_docs[j]
                 IN <<TreeLine("doc", <<continuation, IF is_last_doc THEN "L" ELSE "T">>,
                               doc_id, 0)>>
                    \o SubcolLines(SubEntries(ctree, parent, doc_id),
                                   <<continuation, IF is_last_doc THEN "S" ELSE "I">>)
                    \o Each(j + 1)
    IN Each(1)

\* lines 467-482: sorted_docs is computed once, then looped over
DocLines(ctree, parent, is_last_collection) ==
    CHOOSE lines \in
        {DocLinesOf(ctree, parent, is_last_collection, sorted_docs) :
            sorted_docs \in {SortedStrings({ctree[k].path[2] :
                k \in {q \in 1..Len(ctree) : Len(ctree[q].path) > 1
                                              /\ ctree[q].path[1] = parent}})}} : TRUE

\* lines 433 and 460-482: the project line and the loop over sorted_top_level
TreeLinesOf(ctree, sorted_top_level) ==
         LET RECURSIVE Each(_)
             Each(i) ==
                 IF i > Len(sorted_top_level) THEN <<>>
                 ELSE LET is_last_collection == i = Len(sorted_top_level)
                          name == sorted_top_level[i]
                      IN <<TreeLine("col", <<IF is_last_collection THEN "L" ELSE "T">>,
                                    name, TopEntry(ctree, name).doc_count)>>
                         \o DocLines(ctree, name, is_last_collection)
                         \o Each(i + 1)
         IN <<TreeLine("project", <<>>, "", 0)>> \o Each(1)

\* the lines of the tree, "" (no line) when _collection_tree is empty;
\* sorted_top_level is computed once
generate_ascii_tree(ctree) ==
    IF Len(ctree) = 0 THEN <<>>
    ELSE CHOOSE lines \in
             {TreeLinesOf(ctree, sorted_top_level) :
                 sorted_top_level \in {SortedStrings({ctree[k].path[1] :
                     k \in {q \in 1..Len(ctree) : Len(ctree[q].path) = 1}})}} : TRUE

(***************************************************************************)
(* State.                                                                  *)
(***************************************************************************)
VARIABLES
    cfg,        \* the store and the explorer's configuration (fixed in a run)
    stats,      \* self.stats
    processed,  \* self._processed_paths
    ctree,      \* self._collection_tree
    ed,         \* the activation of explore_database
    stack,      \* the activations of process_collection, innermost last
    call,       \* the activation of _run_with_timeout, if any
    worker,     \* the worker thread of its ThreadPoolExecutor
    faults,     \* failures and timeouts so far (bounded by MaxFaults)
    ret,        \* the call of process_collection that returned last, and its value
    calls,      \* the number of calls of process_collection so far
    pf,         \* a direct call of describe_type or describe_fields, if any
    mn,         \* the activation of main(), if explore_database runs under it
    described   \* history: the calls of describe_fields the traversal has made

vars == <<cfg, stats, processed, ctree, ed, stack, call, worker, faults, ret, calls, pf,
          mn, described>>

\* defaults of __init__ that main() never overrides
SampleArrays == TRUE
ArraySampleSize == 3

NoOp == [kind |-> "none", path |-> <<>>, limit |-> 0, subs |-> <<>>]
NoRet == [result |-> NoneV, timed_out |-> FALSE, error |-> "None"]
IdleCall == [state |-> "idle", op |-> NoOp, ret |-> NoRet]
NoWorker == [state |-> "none", op |-> NoOp, result |-> NoneV, raised |-> "None"]

\* no direct call of describe_type or describe_fields is made
NoDirectCall == [kind |-> "none"]

\* explore_database is called on its own, not by main()
NoMain == [pc |-> "none"]

Frame(path, level) ==
    [path |-> path, level |-> level, pc |-> "enter", output_lines |-> <<>>,
     docs |-> <<>>, i |-> 0, subs |-> <<>>, j |-> 0, exc |-> "None"]

Init ==
    /\ cfg \in [store : Stores, max_depth : 1..MaxDepth, max_docs : 1..MaxDocs,
                include_stats : BOOLEAN]
    /\ stats = [collections |-> 0, documents |-> 0, fields |-> 0,
                timeouts |-> 0, errors |-> 0]
    /\ processed = {}
    /\ ctree = <<>>
    /\ ed = [pc |-> "start", output |-> <<>>, collections |-> <<>>, i |-> 0,
             exc |-> "None"]
    /\ stack = <<>>
    /\ call = IdleCall
    /\ worker = NoWorker
    /\ faults = 0
    /\ ret = [path |-> <<>>, level |-> 0, lines |-> <<>>]
    /\ calls = 0
    /\ pf = NoDirectCall
    /\ mn = NoMain
    /\ described = <<>>

Top == stack[Len(stack)]
SetTop(f) == [stack EXCEPT ![Len(stack)] = f]

(***************************************************************************)
(* _run_with_timeout.  The caller submits the operation to a fresh         *)
(* single-worker executor and waits for future.result(timeout); the        *)
(* `with` block that holds the executor ends with shutdown(wait=True).     *)
(***************************************************************************)
\* executor.submit(func): the value of `call` and `worker` once submitted
Submitted(op) == [state |-> "waiting", op |-> op, ret |-> NoRet]
Started(op) == [state |-> "running", op |-> op, result |-> NoneV, raised |-> "None"]

\* what the operation answers when the store serves it
OpResult(op) ==
    CASE op.kind = "list_roots" -> cfg.store.roots
      [] op.kind = "count" -> <<Min(ColAt(cfg.store, op.path).total, op.limit)>>
      [] op.kind = "stream" -> Take(ColAt(cfg.store, op.path).docs, op.limit)
      [] op.kind = "list_subs" -> op.subs

\* a worker whose operation counts the documents it fetched in self.stats
WorkerReturn_Counting ==
    /\ worker.state = "running"
    /\ worker' = [worker EXCEPT !.state = "done", !.result = Some(OpResult(worker.op))]
    /\ stats' = [stats EXCEPT !.documents = @ + Len(OpResult(worker.op))]
    /\ UNCHANGED <<cfg, processed, ctree, ed, stack, call, faults, ret, calls, pf, mn,
                   described>>

\* the worker thread: the operation returns
WorkerReturn ==
    /\ worker.state = "running"
    /\ worker' = [worker EXCEPT !.state = "done", !.result = Some(OpResult(worker.op))]
    /\ UNCHANGED <<cfg, stats, processed, ctree, ed, stack, call, faults, ret, calls, pf, mn, described>>

\* the worker thread: the operation raises
WorkerRaise ==
    /\ worker.state = "running"
    /\ faults < MaxFaults
    /\ \E e \in OpErrors :
        worker' = [worker EXCEPT !.state = "done", !.raised = e]
    /\ faults' = faults + 1
    /\ UNCHANGED <<cfg, stats, processed, ctree, ed, stack, call, ret, calls, pf, mn, described>>

\* future.result(timeout=self.timeout) answers: the operation has finished
RwtResult ==
    /\ call.state = "waiting"
    /\ worker.state = "done"
    /\ IF worker.raised = "None"
       THEN /\ call' = [call EXCEPT !.state = "returned",
                           !.ret = [result |-> worker.result, timed_out |-> FALSE,
                                    error |-> "None"]]
            /\ stats' = stats
       ELSE /\ call' = [call EXCEPT !.state = "returned",
                           !.ret = [result |-> NoneV, timed_out |-> FALSE,
                                    error |-> worker.raised]]
            /\ stats' = [stats EXCEPT !.errors = @ + 1]
    /\ worker' = NoWorker
    /\ UNCHANGED <<cfg, processed, ctree, ed, stack, faults, ret, calls, pf, mn, described>>

\* the timeout branch without its count
RwtTimeout_Uncounted ==
    /\ call.state = "waiting"
    /\ worker.state = "running"
    /\ faults < MaxFaults
    /\ call' = [call EXCEPT !.state = "exiting",
                   !.ret = [result |-> NoneV, timed_out |-> TRUE,
                            error |-> "TimeoutError"]]
    /\ faults' = faults + 1
    /\ UNCHANGED <<cfg, stats, processed, ctree, ed, stack, worker, ret, calls, pf, mn, described>>

\* future.result raises concurrent.futures.TimeoutError: the operation is
\* still running; the return statement then leaves the `with` block
RwtTimeout ==
    /\ call.state = "waiting"
    /\ worker.state = "running"
    /\ faults < MaxFaults
    /\ stats' = [stats EXCEPT !.timeouts = @ + 1]
    /\ call' = [call EXCEPT !.state = "exiting",
                   !.ret = [result |-> NoneV, timed_out |-> TRUE,
                            error |-> "TimeoutError"]]
    /\ faults' = faults + 1
    /\ UNCHANGED <<cfg, processed, ctree, ed, stack, worker, ret, calls, pf, mn, described>>

\* an executor left without joining its worker: shutdown(wait=False)
ExecutorExitReady_NoJoin == TRUE

\* ThreadPoolExecutor.__exit__: shutdown(wait=True) joins the worker, and
\* only then does _run_with_timeout return
ExecutorExitReady == worker.state = "done"

\* the worker thread is gone once it has ended
RwtExit ==
    /\ call.state = "exiting"
    /\ ExecutorExitReady
    /\ call' = [call EXCEPT !.state = "returned"]
    /\ worker' = IF worker.state = "done" THEN NoWorker ELSE worker
    /\ UNCHANGED <<cfg, stats, processed, ctree, ed, stack, faults, ret, calls, pf, mn, described>>

(***************************************************************************)
(* process_collection(path, level).                                        *)
(***************************************************************************)
\* the guard without its test of the visited set
Guarded_IgnoresVisited(path, level) == level >= cfg.max_depth

\* the guard without its test of the depth
Guarded_IgnoresDepth(path, level) == path \in processed

\* subcollections listed at every level
ListsSubcollections_Always(level) == TRUE

\* line 378: subcollections are listed only above the last level
ListsSubcollections(level) == level < cfg.max_depth - 1

\* the entry guard against cycles and excessive recursion
Guarded(path, level) == path \in processed \/ level >= cfg.max_depth

\* the outer try without a clause that catches: the exception leaves
\* process_collection
OuterExcept_Reraises(f, e) ==
    [frame |-> [f EXCEPT !.pc = "return", !.exc = e], stats |-> stats]

\* except clauses of the outer try: the frame and the counters afterwards
\* (exc: the exception that leaves process_collection, if no clause catches it)
OuterExcept(f, e) ==
    IF IsTimeoutError(e)
    THEN [frame |-> [f EXCEPT !.pc = "return",
                        !.output_lines = Append(@, [Ln("col_timeout") EXCEPT
                                                        !.p = f.path, !.s = e])],
          stats |-> stats]
    ELSE IF IsException(e)
    THEN [frame |-> [f EXCEPT !.pc = "return",
                        !.output_lines = Append(@, [Ln("col_error") EXCEPT
                                                        !.p = f.path, !.s = e])],
          stats |-> [stats EXCEPT !.errors = @ + 1]]
    ELSE [frame |-> [f EXCEPT !.pc = "return", !.exc = e], stats |-> stats]

\* except clauses of the inner try (around the documents); what they do not
\* catch reaches the clauses of the outer try
InnerExcept(f, e) ==
    IF IsPermissionDenied(e)
    THEN [frame |-> [f EXCEPT !.pc = "return",
                        !.output_lines = Append(@, Ln("docs_permission_denied"))],
          stats |-> stats]
    ELSE IF IsTimeoutError(e)
    THEN [frame |-> [f EXCEPT !.pc = "return",
                        !.output_lines = Append(@, [Ln("docs_timeout") EXCEPT !.s = e])],
          stats |-> stats]
    ELSE IF IsException(e)
    THEN [frame |-> [f EXCEPT !.pc = "return",
                        !.output_lines = Append(@, [Ln("docs_error") EXCEPT !.s = e])],
          stats |-> [stats EXCEPT !.errors = @ + 1]]
    ELSE OuterExcept(f, e)

\* a header that never carries the count
CollectionHeader_Bare(path, doc_count, doc_count_str) ==
    [Ln("collection") EXCEPT !.p = path, !.s = "none"]

\* the collection header, with the count when there is one
CollectionHeader(path, doc_count, doc_count_str) ==
    IF doc_count.none
    THEN [Ln("collection") EXCEPT !.p = path, !.s = "none"]
    ELSE [Ln("collection") EXCEPT !.p = path, !.n = doc_count.val, !.s = doc_count_str]

\* lines 336-352: the summary, the header, and the sample fetch submitted by
\* _safe_stream_collection(collection, self.max_docs)
TrackAndSample(f, doc_count, doc_count_str) ==
    /\ ctree' = Append(ctree,
                  [path |-> f.path,
                   doc_count |-> IF doc_count.none THEN 0 ELSE doc_count.val,
                   doc_count_str |-> IF doc_count.none THEN "unknown" ELSE doc_count_str])
    /\ stack' = SetTop([f EXCEPT !.pc = "sample_wait",
                          !.output_lines =
                              Append(@, CollectionHeader(f.path, doc_count, doc_count_str))])
    /\ call' = Submitted([kind |-> "stream", path |-> f.path, limit |-> cfg.max_docs,
                          subs |-> <<>>])
    /\ worker' = Started(call'.op)

\* the guard holds: return []
PC_Skip ==
    /\ stack # <<>> /\ Top.pc = "enter"
    /\ Guarded(Top.path, Top.level)
    /\ stack' = SetTop([Top EXCEPT !.pc = "return"])
    /\ UNCHANGED <<cfg, stats, processed, ctree, ed, call, worker, faults, ret, calls, pf, mn, described>>

\* lines 297-320 (counts requested) or 297-352 (no counts)
PC_Enter ==
    /\ stack # <<>> /\ Top.pc = "enter"
    /\ ~Guarded(Top.path, Top.level)
    /\ processed' = processed \cup {Top.path}
    /\ stats' = [stats EXCEPT !.collections = @ + 1]
    /\ IF cfg.include_stats
       THEN /\ stack' = SetTop([Top EXCEPT !.pc = "count_wait"])
            /\ call' = Submitted([kind |-> "count", path |-> Top.path,
                                  limit |-> CountLimit, subs |-> <<>>])
            /\ worker' = Started(call'.op)
            /\ ctree' = ctree
       ELSE TrackAndSample(Top, NoneV, "none")
    /\ UNCHANGED <<cfg, ed, faults, ret, calls, pf, mn, described>>

\* self.db.collection(path) raises
PC_EnterRaise ==
    /\ stack # <<>> /\ Top.pc = "enter"
    /\ ~Guarded(Top.path, Top.level)
    /\ faults < MaxFaults
    /\ processed' = processed \cup {Top.path}
    /\ \E e \in ClientErrors :
        /\ stack' = SetTop(OuterExcept(Top, e).frame)
        /\ stats' = OuterExcept(Top, e).stats
    /\ faults' = faults + 1
    /\ UNCHANGED <<cfg, ctree, ed, call, worker, ret, calls, pf, mn, described>>

\* lines 322-352: the count query has answered
PC_Counted ==
    /\ stack # <<>> /\ Top.pc = "count_wait"
    /\ call.state = "returned"
    /\ LET docs == call.ret.result
           timed_out == call.ret.timed_out
           error == call.ret.error
       IN IF timed_out THEN TrackAndSample(Top, NoneV, "unknown (timed out)")
          ELSE IF error # "None" THEN TrackAndSample(Top, NoneV, "unknown (error)")
          ELSE LET doc_count == docs.val[1]
               IN TrackAndSample(Top, Some(doc_count),
                                 IF doc_count >= CountLimit THEN "n+" ELSE "n")
    /\ UNCHANGED <<cfg, stats, processed, ed, faults, ret, calls, pf, mn, described>>

\* the loop over the sampled documents ended by the first `continue`
NextDoc_Stops(f) == [f EXCEPT !.i = @ + 1, !.pc = "return"]

\* `continue` / the end of the body of the loop over docs: the next document,
\* or the return at the end of the loop
NextDoc(f) ==
    IF f.i + 1 > Len(f.docs)
    THEN [f EXCEPT !.i = @ + 1, !.pc = "return"]
    ELSE [f EXCEPT !.i = @ + 1, !.pc = "doc"]

\* lines 266-278 and 353-365: _safe_stream_collection after the sample fetch
\* has answered, and what process_collection does with its outcome
PC_Sampled ==
    /\ stack # <<>> /\ Top.pc = "sample_wait"
    /\ call.state = "returned"
    /\ LET timed_out == call.ret.timed_out
           error == call.ret.error
           raises == ~timed_out /\ error # "None" /\ IsPermissionDenied(error)
           docs == IF timed_out \/ error # "None" THEN <<>>
                   ELSE OrEmpty(call.ret.result)
       IN IF raises
          THEN stack' = SetTop([Top EXCEPT !.pc = "return",
                   !.output_lines = Append(@, [Ln("permission_denied") EXCEPT
                                                  !.n = indent(Top.level + 1)])])
          ELSE IF Len(docs) = 0
          THEN stack' = SetTop([Top EXCEPT !.pc = "return",
                   !.output_lines = Append(@, Ln("no_documents"))])
          ELSE stack' = SetTop([Top EXCEPT !.pc = "doc", !.docs = docs, !.i = 1])
    /\ call' = IdleCall
    /\ UNCHANGED <<cfg, stats, processed, ctree, ed, worker, faults, ret, calls, pf, mn, described>>

\* lines 369-382: one document of the sample
PC_Doc ==
    /\ stack # <<>> /\ Top.pc = "doc"
    /\ LET doc == Top.docs[Top.i]
           doc_data == doc.data
       IN IF Len(doc_data) = 0
          THEN /\ stack' = SetTop(NextDoc(Top))
               /\ UNCHANGED <<stats, call, worker, described>>
          ELSE LET hdr == Append(Top.output_lines, [Ln("document") EXCEPT !.s = doc.id])
                   acc == describe_fields(doc_data, Top.level + 2,
                                          [lines |-> hdr, fields |-> stats.fields],
                                          SampleArrays, ArraySampleSize)
                   f == [Top EXCEPT !.output_lines = acc.lines]
               IN /\ stats' = [stats EXCEPT !.documents = @ + 1, !.fields = acc.fields]
                  /\ described' = Append(described,
                        [path |-> Top.path, id |-> doc.id,
                         lines |-> SubSeq(acc.lines, Len(hdr) + 1, Len(acc.lines))])
                  /\ IF ListsSubcollections(Top.level)
                     THEN /\ stack' = SetTop([f EXCEPT !.pc = "subs_wait"])
                          /\ call' = Submitted([kind |-> "list_subs", path |-> doc.ref,
                                                limit |-> 0, subs |-> doc.subs])
                          /\ worker' = Started(call'.op)
                     ELSE /\ stack' = SetTop(NextDoc(f))
                          /\ UNCHANGED <<call, worker>>
    /\ UNCHANGED <<cfg, processed, ctree, ed, faults, ret, calls, pf, mn>>

\* doc.to_dict() raises
PC_DocRaise ==
    /\ stack # <<>> /\ Top.pc = "doc"
    /\ faults < MaxFaults
    /\ \E e \in ClientErrors :
        /\ stack' = SetTop(InnerExcept(Top, e).frame)
        /\ stats' = InnerExcept(Top, e).stats
    /\ faults' = faults + 1
    /\ UNCHANGED <<cfg, processed, ctree, ed, call, worker, ret, calls, pf, mn, described>>

\* lines 384-396: the listing of the document's subcollections has answered
PC_SubsListed ==
    /\ stack # <<>> /\ Top.pc = "subs_wait"
    /\ call.state = "returned"
    /\ LET subcollections == call.ret.result
           timed_out == call.ret.timed_out
           error == call.ret.error
       IN IF timed_out
          THEN stack' = SetTop(NextDoc([Top EXCEPT
                   !.output_lines = Append(@, Ln("subcollections_timeout"))]))
          ELSE IF error # "None"
          THEN stack' = SetTop(NextDoc([Top EXCEPT
                   !.output_lines = Append(@, [Ln("subcollections_error") EXCEPT
                                                  !.s = error])]))
          ELSE IF Len(OrEmpty(subcollections)) = 0
          THEN stack' = SetTop(NextDoc(Top))
          ELSE stack' = SetTop([Top EXCEPT !.pc = "sub",
                                   !.subs = OrEmpty(subcollections), !.j = 1])
    /\ call' = IdleCall
    /\ UNCHANGED <<cfg, stats, processed, ctree, ed, worker, faults, ret, calls, pf, mn, described>>

\* lines 396-401: the call of process_collection for one subcollection
PC_Sub ==
    /\ stack # <<>> /\ Top.pc = "sub"
    /\ LET doc == Top.docs[Top.i]
           subcol_path == SubcolPath(doc, Top.subs[Top.j])
       IN stack' = Append(SetTop([Top EXCEPT !.pc = "sub_wait"]),
                          Frame(subcol_path, Top.level + 2))
    /\ calls' = calls + 1
    /\ UNCHANGED <<cfg, stats, processed, ctree, ed, call, worker, faults, ret, pf, mn, described>>

\* the return of the inner process_collection with its lines put before
\* those of the caller
PC_Return_Prepends ==
    /\ Len(stack) > 1 /\ Top.pc = "return"
    /\ LET parent == stack[Len(stack) - 1]
           rest == SubSeq(stack, 1, Len(stack) - 2)
       IN IF Top.exc # "None"
          THEN /\ stack' = Append(rest, InnerExcept(parent, Top.exc).frame)
               /\ stats' = InnerExcept(parent, Top.exc).stats
          ELSE LET f == [parent EXCEPT !.output_lines = Top.output_lines \o @]
               IN /\ stack' = Append(rest,
                        IF f.j + 1 > Len(f.subs)
                        THEN NextDoc([f EXCEPT !.j = @ + 1])
                        ELSE [f EXCEPT !.j = @ + 1, !.pc = "sub"])
                  /\ stats' = stats
    /\ ret' = [path |-> Top.path, level |-> Top.level, lines |-> Top.output_lines]
    /\ UNCHANGED <<cfg, processed, ctree, ed, call, worker, faults, calls, pf, mn, described>>

\* line 402 after the return of the inner process_collection: its lines are
\* appended, and the loop over the subcollections goes on
PC_Return ==
    /\ Len(stack) > 1 /\ Top.pc = "return"
    /\ LET parent == stack[Len(stack) - 1]
           rest == SubSeq(stack, 1, Len(stack) - 2)
       IN IF Top.exc # "None"
          THEN /\ stack' = Append(rest, InnerExcept(parent, Top.exc).frame)
               /\ stats' = InnerExcept(parent, Top.exc).stats
          ELSE LET f == [parent EXCEPT !.output_lines = @ \o Top.output_lines]
               IN /\ stack' = Append(rest,
                        IF f.j + 1 > Len(f.subs)
                        THEN NextDoc([f EXCEPT !.j = @ + 1])
                        ELSE [f EXCEPT !.j = @ + 1, !.pc = "sub"])
                  /\ stats' = stats
    /\ ret' = [path |-> Top.path, level |-> Top.level, lines |-> Top.output_lines]
    /\ UNCHANGED <<cfg, processed, ctree, ed, call, worker, faults, calls, pf, mn, described>>

(***************************************************************************)
(* explore_database.                                                       *)
(***************************************************************************)
\* an insert that appends
Insert_AtEnd(list, index, x) == Append(list, x)

\* list.insert(index, x), index counted from 0
Insert(list, index, x) ==
    SubSeq(list, 1, Min(index, Len(list))) \o <<x>>
        \o SubSeq(list, Min(index, Len(list)) + 1, Len(list))

\* for i, line in enumerate(tree_lines): output.insert(insert_index + i, line)
RECURSIVE InsertAll(_, _, _)
InsertAll(list, index, xs) ==
    IF xs = <<>> THEN list
    ELSE CHOOSE r \in {InsertAll(inserted, index + 1, rest) :
                          inserted \in {Insert(list, index, Head(xs))},
                          rest \in {Tail(xs)}} : TRUE

\* the statistics block appended whatever include_stats says
WithStatistics_Always(output, st) ==
    output \o <<Ln("statistics"),
                [Ln("stat") EXCEPT !.s = "Collections", !.n = st.collections],
                [Ln("stat") EXCEPT !.s = "Documents sampled", !.n = st.documents],
                [Ln("stat") EXCEPT !.s = "Fields analyzed", !.n = st.fields],
                Ln("duration"),
                [Ln("stat") EXCEPT !.s = "Timeouts", !.n = st.timeouts],
                [Ln("stat") EXCEPT !.s = "Errors", !.n = st.errors]>>

\* lines 575-585: the statistics block, if requested, and the return
WithStatistics(output, st) ==
    IF cfg.include_stats
    THEN output \o <<Ln("statistics"),
                     [Ln("stat") EXCEPT !.s = "Collections", !.n = st.collections],
                     [Ln("stat") EXCEPT !.s = "Documents sampled", !.n = st.documents],
                     [Ln("stat") EXCEPT !.s = "Fields analyzed", !.n = st.fields],
                     Ln("duration"),
                     [Ln("stat") EXCEPT !.s = "Timeouts", !.n = st.timeouts],
                     [Ln("stat") EXCEPT !.s = "Errors", !.n = st.errors]>>
    ELSE output

\* lines 556-563, then 575-585: an exception raised inside the inner try is
\* caught, and the statistics follow; what no clause catches leaves
\* explore_database (pc "raised")
EdExcept(e, output) ==
    IF IsTimeoutError(e)
    THEN LET st == [stats EXCEPT !.timeouts = @ + 1]
         IN [pc |-> "done", exc |-> "None",
             output |-> WithStatistics(
                            Append(output, [Ln("timeout_listing") EXCEPT !.s = e]), st),
             stats |-> st]
    ELSE IF IsException(e)
    THEN LET st == [stats EXCEPT !.errors = @ + 1]
         IN [pc |-> "done", exc |-> "None",
             output |-> WithStatistics(
                            Append(output, [Ln("error_listing_raised") EXCEPT !.s = e]), st),
             stats |-> st]
    ELSE [pc |-> "raised", exc |-> e, output |-> output, stats |-> stats]

\* lines 544-554, then 575-585: the tree is rendered and spliced in after the
\* three header lines
EdFinish(output) ==
    IF TreeRaises(ctree) THEN EdExcept("IndexError", output)
    ELSE CHOOSE r \in
            {[pc |-> "done", exc |-> "None",
              output |-> WithStatistics(
                  IF tree # <<>>
                  THEN CHOOSE inserted \in {InsertAll(output, 3, tree_lines) :
                           tree_lines \in {<<Ln("database_structure"), Ln("fence"),
                                              [Ln("tree") EXCEPT !.x = tree],
                                              Ln("fence"), Ln("blank")>>}} : TRUE
                  ELSE output, stats),
              stats |-> stats] : tree \in {generate_ascii_tree(ctree)}} : TRUE

\* lines 492-515: the header, and the listing of the root collections submitted
ED_Start ==
    /\ ed.pc = "start"
    /\ ed' = [ed EXCEPT !.pc = "listing",
                 !.output = <<Ln("title"), Ln("generated"), Ln("project")>>]
    /\ call' = Submitted([kind |-> "list_roots", path |-> <<>>, limit |-> 0,
                          subs |-> <<>>])
    /\ worker' = Started(call'.op)
    /\ UNCHANGED <<cfg, stats, processed, ctree, stack, faults, ret, calls, pf, mn, described>>

\* lines 517-530: the listing has answered
ED_Listed ==
    /\ ed.pc = "listing"
    /\ call.state = "returned"
    /\ LET collections == call.ret.result
           timed_out == call.ret.timed_out
           error == call.ret.error
       IN IF timed_out
          THEN ed' = [ed EXCEPT !.pc = "done",
                         !.output = Append(@, Ln("timed_out_listing"))]
          ELSE IF error # "None"
          THEN ed' = [ed EXCEPT !.pc = "done",
                         !.output = Append(@, [Ln("error_listing") EXCEPT !.s = error])]
          ELSE IF ~Truthy(collections)
          THEN ed' = [ed EXCEPT !.pc = "done",
                         !.output = Append(@, Ln("no_collections"))]
          ELSE ed' = [ed EXCEPT !.pc = "loop", !.collections = collections.val, !.i = 1]
    /\ call' = IdleCall
    /\ UNCHANGED <<cfg, stats, processed, ctree, stack, worker, faults, ret, calls, pf, mn, described>>

\* lines 533-541: process_collection(col.id) is called for the next root
ED_Process ==
    /\ ed.pc = "loop"
    /\ stack = <<>>
    /\ stack' = <<Frame(<<ed.collections[ed.i]>>, 0)>>
    /\ ed' = [ed EXCEPT !.pc = "loop_wait"]
    /\ calls' = calls + 1
    /\ UNCHANGED <<cfg, stats, processed, ctree, call, worker, faults, ret, pf, mn, described>>

\* line 542 after the return of process_collection: its lines are appended;
\* after the last root, lines 544-585
ED_Collected ==
    /\ ed.pc = "loop_wait"
    /\ Len(stack) = 1 /\ Top.pc = "return"
    /\ stack' = <<>>
    /\ ret' = [path |-> Top.path, level |-> Top.level, lines |-> Top.output_lines]
    /\ IF Top.exc # "None"
       THEN \E r \in {EdExcept(Top.exc, ed.output)} :
               /\ ed' = [ed EXCEPT !.pc = r.pc, !.exc = r.exc, !.output = r.output]
               /\ stats' = r.stats
       ELSE LET output == ed.output \o Top.output_lines
            IN IF ed.i + 1 > Len(ed.collections)
               THEN \E r \in {EdFinish(output)} :
                       /\ ed' = [ed EXCEPT !.pc = r.pc, !.exc = r.exc, !.i = @ + 1,
                                     !.output = r.output]
                       /\ stats' = r.stats
               ELSE /\ ed' = [ed EXCEPT !.pc = "loop", !.i = @ + 1, !.output = output]
                    /\ stats' = stats
    /\ UNCHANGED <<cfg, processed, ctree, call, worker, faults, calls, pf, mn, described>>

Next ==
    \/ WorkerReturn
    \/ WorkerRaise
    \/ RwtResult
    \/ RwtTimeout
    \/ RwtExit
    \/ PC_Skip
    \/ PC_Enter
    \/ PC_EnterRaise
    \/ PC_Counted
    \/ PC_Sampled
    \/ PC_Doc
    \/ PC_DocRaise
    \/ PC_SubsListed
    \/ PC_Sub
    \/ PC_Return
    \/ ED_Start
    \/ ED_Listed
    \/ ED_Process
    \/ ED_Collected

Spec == Init /\ [][Next]_vars

\* The traversal thread runs whenever it can, and every remote operation
\* ends: it returns or raises, possibly after its call has timed out.
FairSpec == Spec /\ WF_vars(Next)

(***************************************************************************)
(* export_to_file(output, filename, format).  A dict is the sequence of    *)
(* its items in insertion order.  The text of a report line holds the      *)
(* marker "### Collection: `" only if it is a collection header, "#### *)
(* Document: `" only if it is a document header and "- `" only if it is a  *)
(* field line: the other lines (headers, tree, markers, statistics) carry  *)
(* no backquote after "- " and none of the two heading markers, for the    *)
(* identifiers and error texts of the stores modelled.                     *)
(***************************************************************************)
\* key in d
DictHas(d, key) == \E k \in 1..Len(d) : d[k].key = key

\* d[key]
DictGet(d, key) == d[CHOOSE k \in 1..Len(d) : d[k].key = key].value

\* d[key] = value
DictSet(d, key, value) ==
    IF DictHas(d, key)
    THEN [k \in 1..Len(d) |-> IF d[k].key = key THEN Item(key, value) ELSE d[k]]
    ELSE Append(d, Item(key, value))

\* line.strip().split("`")[1] and line.split("(")[1].split(")")[0] of a field
\* line: the key between the first two backquotes, the label between the
\* first "(" and the next ")" (keys and labels hold neither)
FieldOf(line) == [name |-> line.s, type |-> line.ty]

\* lines 604-606: the parser before the first line
ExportStart ==
    [collections_data |-> <<>>, current_collection |-> NoneV,
     current_document |-> NoneV, raised |-> "None"]

\* lines 609-624: one line of the report
ExportLine(st, line) ==
    IF st.raised # "None" THEN st
    ELSE IF line.t = "collection"
    THEN [st EXCEPT !.collections_data = DictSet(@, line.p, <<>>),
                    !.current_collection = Some(line.p)]
    ELSE IF line.t = "document" /\ ~st.current_collection.none
    THEN LET col == st.current_collection.val
         IN [st EXCEPT !.collections_data =
                           DictSet(@, col, DictSet(DictGet(@, col), line.s, <<>>)),
                       !.current_document = Some(line.s)]
    ELSE IF line.t = "field" /\ ~st.current_collection.none /\ ~st.current_document.none
    THEN LET col == st.current_collection.val
             doc == st.current_document.val
             documents == DictGet(st.collections_data, col)
         IN IF ~DictHas(documents, doc) THEN [st EXCEPT !.raised = "KeyError"]
            ELSE [st EXCEPT !.collections_data =
                      DictSet(@, col, DictSet(documents, doc,
                                  Append(DictGet(documents, doc), FieldOf(line))))]
    ELSE st

\* line 608: for line in output.split("\n")
RECURSIVE ExportLines(_, _)
ExportLines(st, lines) ==
    IF lines = <<>> THEN st
    ELSE ExportLines(ExportLine(st, Head(lines)), Tail(lines))

\* the structure json.dump writes for a report
ExportJson(output) == ExportLines(ExportStart, output)

(***************************************************************************)
(* main(): explore_database() under the handlers of lines 748-765, then    *)
(* export_to_file.  code is the value main returns, file what was written  *)
(* to the output path.                                                     *)
(***************************************************************************)
\* --format
MainFormats == {"md", "json"}

\* interrupted (history): a KeyboardInterrupt has been raised in this run
StartedMain ==
    [pc |-> "explore", format |-> "md", code |-> 0, file |-> NoneV, interrupted |-> FALSE]

MainStores == {StoreNested, StoreSiblings}

\* the explorer main() has constructed
MainInit ==
    /\ cfg \in [store : MainStores, max_depth : 1..MaxDepth, max_docs : 1..MaxDocs,
                include_stats : BOOLEAN]
    /\ stats = [collections |-> 0, documents |-> 0, fields |-> 0,
                timeouts |-> 0, errors |-> 0]
    /\ processed = {}
    /\ ctree = <<>>
    /\ ed = [pc |-> "start", output |-> <<>>, collections |-> <<>>, i |-> 0,
             exc |-> "None"]
    /\ stack = <<>>
    /\ call = IdleCall
    /\ worker = NoWorker
    /\ faults = 0
    /\ ret = [path |-> <<>>, level |-> 0, lines |-> <<>>]
    /\ calls = 0
    /\ pf = NoDirectCall
    /\ mn = StartedMain
    /\ described = <<>>

\* KeyboardInterrupt is raised in the main thread while explore_database
\* runs (a signal, or future.result() re-raising it from the operation), in
\* the innermost activation: of process_collection if there is one, else of
\* explore_database.  The except clauses decide what becomes of it; the
\* bounded call under way, if any, is abandoned
Interrupt ==
    /\ mn.pc = "explore" /\ ~mn.interrupted
    /\ ed.pc \in {"listing", "loop", "loop_wait"}
    /\ mn' = [mn EXCEPT !.interrupted = TRUE]
    /\ call' = IdleCall
    /\ IF stack # <<>>
       THEN \E r \in {InnerExcept(Top, "KeyboardInterrupt")} :
               /\ stack' = SetTop(r.frame)
               /\ stats' = r.stats
               /\ ed' = ed
       ELSE \E r \in {EdExcept("KeyboardInterrupt", ed.output)} :
               /\ ed' = [ed EXCEPT !.pc = r.pc, !.exc = r.exc, !.output = r.output]
               /\ stats' = r.stats
               /\ stack' = stack
    /\ UNCHANGED <<cfg, processed, ctree, worker, faults, ret, calls, pf, described>>

\* lines 748-750: explore_database has raised KeyboardInterrupt (the `with`
\* block of the executor has joined its worker on the way out); main
\* returns 130
Main_Cancelled ==
    /\ mn.pc = "explore"
    /\ ed.pc = "raised" /\ ed.exc = "KeyboardInterrupt"
    /\ worker.state # "running"
    /\ mn' = [mn EXCEPT !.pc = "returned", !.code = 130]
    /\ worker' = NoWorker
    /\ UNCHANGED <<cfg, stats, processed, ctree, ed, stack, call, faults, ret, calls, pf,
                   described>>

\* lines 722-746 and 767: the report is exported in the format asked for,
\* and main returns 0; an exception raised by the export (a KeyError of the
\* parser) is caught at line 761
Main_Export ==
    /\ mn.pc = "explore"
    /\ ed.pc = "done"
    /\ \E format \in MainFormats :
        \E parsed \in {ExportJson(ed.output)} :
            mn' = IF format = "md"
                  THEN [mn EXCEPT !.pc = "returned", !.format = format, !.code = 0,
                                  !.file = Some(ed.output)]
                  ELSE IF parsed.raised # "None"
                  THEN [mn EXCEPT !.pc = "returned", !.format = format, !.code = 1]
                  ELSE [mn EXCEPT !.pc = "returned", !.format = format, !.code = 0,
                                  !.file = Some(parsed.collections_data)]
    /\ UNCHANGED <<cfg, stats, processed, ctree, ed, stack, call, worker, faults, ret,
                   calls, pf, described>>

\* lines 636-638 and 761-765: the output path cannot be written; the
\* exception is logged, raised again and caught by main, which returns 1
Main_ExportRaise ==
    /\ mn.pc = "explore"
    /\ ed.pc = "done"
    /\ \E format \in MainFormats :
        mn' = [mn EXCEPT !.pc = "returned", !.format = format, !.code = 1]
    /\ UNCHANGED <<cfg, stats, processed, ctree, ed, stack, call, worker, faults, ret,
                   calls, pf, described>>

MainNext ==
    \/ Next
    \/ Interrupt
    \/ Main_Cancelled
    \/ Main_Export
    \/ Main_ExportRaise

MainSpec == MainInit /\ [][MainNext]_vars

(***************************************************************************)
(* Direct calls of describe_type and describe_fields, on values and maps   *)
(* drawn from bounded sets.                                                *)
(***************************************************************************)
\* sequences over S of length at most n
SeqsUpTo(S, n) == UNION {[1..m -> S] : m \in 0..n}

\* a value of a type TYPE_MAPPING does not know
VDecimal == Val("Decimal", {}, <<>>, "")

\* the attributes describe_type looks for
Capabilities == {"timestamp", "latitude", "longitude", "path"}

\* objects that expose any of these attributes (a MagicMock, a datetime, a
\* GeoPoint)
CapableValues ==
    {Val("MagicMock", caps, <<>>, "a/d1") : caps \in SUBSET Capabilities \ {{}}}
        \cup {VTime, VGeo, VRef("b/d1"), Val("datetime", {"timestamp"}, <<>>, ""),
              Val("GeoPoint", {"latitude", "longitude"}, <<>>, "")}

\* elements of the arrays described
ArrayElements == {VInt, VStr, VBool, VList(<<VStr, VInt>>)}

ArrayValues == {VList(elems) : elems \in SeqsUpTo(ArrayElements, MaxArrayLen)}

TypeValues ==
    {VNone, VStr, VInt, VBool, VFloat, VBytes, VDecimal, VDict(<<>>),
     VDict(<<Item("name", VStr)>>)}
        \cup CapableValues \cup ArrayValues

\* the items of a dict, in insertion order: distinct keys of `keys`, at most
\* MaxKeys of them, with values of `vals`
DictItems(keys, vals) ==
    {items \in SeqsUpTo([key : keys, value : vals], MaxKeys) :
        \A i, j \in 1..Len(items) : i # j => items[i].key # items[j].key}

FieldKeys == {"age", "meta", "name"}

\* maps of scalars, and maps whose values are scalars, arrays or such maps
InnerData == DictItems(FieldKeys, {VInt})
FieldData ==
    DictItems(FieldKeys,
              {VStr, VList(<<VInt, VStr>>),
               VDict(<<Item("meta", VDict(<<Item("zip", VInt), Item("b", VStr)>>))>>)}
                  \cup {VDict(d) : d \in InnerData})

\* explorer.describe_type(value) under a configuration
TypeCalls ==
    [kind : {"describe_type"}, pc : {"call"}, sample_arrays : BOOLEAN,
     array_sample_size : 0..MaxSample, value : TypeValues, label : {<<>>}]

\* explorer.describe_fields(data, level, output_lines)
FieldCalls ==
    [kind : {"describe_fields"}, pc : {"call"}, sample_arrays : BOOLEAN,
     array_sample_size : {ArraySampleSize}, data : FieldData, level : 0..1,
     output_lines : {<<>>, <<[Ln("document") EXCEPT !.s = "d1"]>>}]

\* a fresh explorer, and one direct call about to be made
DescribeInit ==
    /\ cfg = [store |-> StoreEmpty, max_depth |-> 1, max_docs |-> 1,
              include_stats |-> TRUE]
    /\ stats = [collections |-> 0, documents |-> 0, fields |-> 0,
                timeouts |-> 0, errors |-> 0]
    /\ processed = {}
    /\ ctree = <<>>
    /\ ed = [pc |-> "start", output |-> <<>>, collections |-> <<>>, i |-> 0,
             exc |-> "None"]
    /\ stack = <<>>
    /\ call = IdleCall
    /\ worker = NoWorker
    /\ faults = 0
    /\ ret = [path |-> <<>>, level |-> 0, lines |-> <<>>]
    /\ calls = 0
    /\ pf \in TypeCalls \cup FieldCalls
    /\ mn = NoMain
    /\ described = <<>>

\* describe_type(value) returns its label
DescribeType ==
    /\ pf.kind = "describe_type" /\ pf.pc = "call"
    /\ pf' = [pf EXCEPT !.pc = "returned",
                 !.label = describe_type(pf.value, pf.sample_arrays,
                                         pf.array_sample_size)]
    /\ UNCHANGED <<cfg, stats, processed, ctree, ed, stack, call, worker, faults, ret,
                   calls, mn, described>>

\* describe_fields(data, level, output_lines) appends its lines and counts
\* the fields
DescribeFields ==
    /\ pf.kind = "describe_fields" /\ pf.pc = "call"
    /\ \E acc \in {describe_fields(pf.data, pf.level,
                                    [lines |-> pf.output_lines, fields |-> stats.fields],
                                    pf.sample_arrays, pf.array_sample_size)} :
        /\ pf' = [pf EXCEPT !.pc = "returned", !.output_lines = acc.lines]
        /\ stats' = [stats EXCEPT !.fields = acc.fields]
    /\ UNCHANGED <<cfg, processed, ctree, ed, stack, call, worker, faults, ret, calls,
                   mn, described>>

DescribeNext ==
    \/ DescribeType
    \/ DescribeFields

DescribeSpec == DescribeInit /\ [][DescribeNext]_vars

(***************************************************************************)
(* Direct calls of generate_ascii_tree, on summary maps drawn from a       *)
(* bounded set.                                                            *)
(***************************************************************************)
\* the largest number of summaries in a map
MaxEntries == 3

\* paths process_collection is called with: a root collection, or the path
\* of a sampled document followed by the id of one of its subcollections
TreePaths ==
    {<<"a">>, <<"b">>, <<"a", "d1", "s">>, <<"a", "d1", "t">>, <<"a", "d2", "s">>,
     <<"b", "d1", "s">>, <<"a", "d1", "s", "d1", "t">>}

\* the path of the collection that holds the document a subcollection
\* belongs to
HolderOf(path) == SubSeq(path, 1, Len(path) - 2)

\* _collection_tree after a traversal, in insertion order: one summary per
\* path, the summary of a subcollection after that of the collection whose
\* document listed it
TreeSummaries ==
    {m \in SeqsUpTo([path : TreePaths, doc_count : {0, 2}, doc_count_str : {"n"}],
                    MaxEntries) :
        /\ \A i, j \in 1..Len(m) : m[i].path = m[j].path => i = j
        /\ \A i \in 1..Len(m) :
            Len(m[i].path) > 1 => \E j \in 1..(i - 1) : m[j].path = HolderOf(m[i].path)}

\* an explorer whose traversal has filled _collection_tree, and a call of
\* generate_ascii_tree about to be made
TreeInit ==
    /\ cfg = [store |-> StoreEmpty, max_depth |-> 1, max_docs |-> 1,
              include_stats |-> TRUE]
    /\ stats = [collections |-> 0, documents |-> 0, fields |-> 0,
                timeouts |-> 0, errors |-> 0]
    /\ processed = {}
    /\ ctree \in TreeSummaries
    /\ ed = [pc |-> "start", output |-> <<>>, collections |-> <<>>, i |-> 0,
             exc |-> "None"]
    /\ stack = <<>>
    /\ call = IdleCall
    /\ worker = NoWorker
    /\ faults = 0
    /\ ret = [path |-> <<>>, level |-> 0, lines |-> <<>>]
    /\ calls = 0
    /\ pf = [kind |-> "generate_ascii_tree", pc |-> "call", tree |-> <<>>]
    /\ mn = NoMain
    /\ described = <<>>

\* generate_ascii_tree() returns the lines of the tree, or raises IndexError
GenerateTree ==
    /\ pf.kind = "generate_ascii_tree" /\ pf.pc = "call"
    /\ pf' = IF TreeRaises(ctree) THEN [pf EXCEPT !.pc = "raised"]
             ELSE [pf EXCEPT !.pc = "returned", !.tree = generate_ascii_tree(ctree)]
    /\ UNCHANGED <<cfg, stats, processed, ctree, ed, stack, call, worker, faults, ret,
                   calls, mn, described>>

TreeNext == GenerateTree

TreeSpec == TreeInit /\ [][TreeNext]_vars

(***************************************************************************)
(* Observations used by the properties.                                    *)
(***************************************************************************)
\* every line accumulated so far: the report, then the lines each active
\* process_collection still holds, outermost first
RECURSIVE FrameLines(_)
FrameLines(k) == IF k > Len(stack) THEN <<>> ELSE stack[k].output_lines \o FrameLines(k + 1)
AllLines == ed.output \o FrameLines(1)

\* the positions of the collection headers of a path
HeadersOf(lines, path) ==
    {k \in 1..Len(lines) : lines[k].t = "collection" /\ lines[k].p = path}

\* the kinds of line that open or fill a collection block
IsBlockLine(l) == l.t \in {"collection", "document", "field"}

\* process_collection is about to run its first statement
AtEntry == stack # <<>> /\ Top.pc = "enter"

\* the step is the immediate `return []` of the innermost process_collection
ReturnsEmptyUntouched ==
    /\ Len(stack') = Len(stack)
    /\ stack'[Len(stack)].pc = "return"
    /\ stack'[Len(stack)].output_lines = <<>>
    /\ SubSeq(stack', 1, Len(stack) - 1) = SubSeq(stack, 1, Len(stack) - 1)
    /\ UNCHANGED <<stats, processed, ctree, call, worker, ed, pf, mn, described>>

(***************************************************************************)
(* C1: whenever a bounded call has timed out (the timeout is counted and   *)
(* the outcome timed_out = true is set), _run_with_timeout can return to   *)
(* its caller at once, whether or not the operation has finished.          *)
(***************************************************************************)
C1_TimeoutReturnsWithoutWaiting ==
    (call.state = "exiting" /\ call.ret.timed_out) => ENABLED RwtExit

(***************************************************************************)
(* C2: explore_database never raises; the report it returns starts with    *)
(* the title line; and once the roots are listed, every listed root has    *)
(* been explored by the end of the run, whatever failed before it.         *)
(***************************************************************************)
C2_ReportAlwaysReturned ==
    /\ ed.pc # "raised"
    /\ ed.exc = "None"
    /\ ed.pc = "done" =>
        /\ Len(ed.output) >= 1
        /\ ed.output[1].t = "title"
        /\ \A k \in 1..Len(ed.collections) : <<ed.collections[k]>> \in processed

\* the run is over, the first root failed (its handle could not be built and
\* the error was counted), and the second root was explored all the same
C2_Witness ==
    /\ ed.pc = "done"
    /\ Len(ed.collections) = 2
    /\ \E k \in 1..Len(ed.output) :
        ed.output[k].t = "col_error" /\ ed.output[k].p = <<ed.collections[1]>>
    /\ HeadersOf(ed.output, <<ed.collections[2]>>) # {}
    /\ stats.errors >= 1

(***************************************************************************)
(* C3: at every moment no path has more than one collection header among   *)
(* the lines accumulated so far, and the collections counter is at most    *)
(* the number of paths of the visited set.                                 *)
(***************************************************************************)
C3_EachPathOnce ==
    /\ \A path \in processed : Cardinality(HeadersOf(AllLines, path)) <= 1
    /\ \A k \in 1..Len(AllLines) :
        AllLines[k].t = "collection" => AllLines[k].p \in processed
    /\ stats.collections <= Cardinality(processed)

\* process_collection was called again on an explored path, below the depth
\* bound, and returned: the path still has its single header
C3_Witness ==
    /\ ret.path \in processed
    /\ ret.level < cfg.max_depth
    /\ ret.lines = <<>>
    /\ Cardinality(HeadersOf(AllLines, ret.path)) = 1
    /\ calls > Cardinality(processed)

(***************************************************************************)
(* C4: a call of process_collection on a path of the visited set returns   *)
(* [] at once: no remote call is submitted, and the counters, the visited  *)
(* set and the summary map stay as they are.                               *)
(***************************************************************************)
C4_VisitedPathNoEffect ==
    [][(AtEntry /\ Top.path \in processed) => ReturnsEmptyUntouched]_vars

\* such a call has just returned [] below the depth bound
C4_Witness ==
    /\ stack # <<>>
    /\ Top.pc = "return"
    /\ Top.path \in processed
    /\ Top.level < cfg.max_depth
    /\ Top.output_lines = <<>>
    /\ call.state = "idle"

(***************************************************************************)
(* C5: a call of process_collection with level >= max_depth returns [] at  *)
(* once, submits no remote call, does not mark the path visited and        *)
(* changes no counter; and no active call at such a level ever holds a     *)
(* line or waits on a remote call.                                         *)
(***************************************************************************)
C5_DepthBoundNoEffect ==
    /\ [][(AtEntry /\ Top.level >= cfg.max_depth) => ReturnsEmptyUntouched]_vars
    /\ [](\A k \in 1..Len(stack) :
            stack[k].level >= cfg.max_depth =>
                /\ stack[k].output_lines = <<>>
                /\ stack[k].pc \in {"enter", "return"})

\* a subcollection was reached at the depth bound and the call has returned
\* [] without marking it visited
C5_Witness ==
    /\ stack # <<>>
    /\ Top.pc = "return"
    /\ Top.level >= cfg.max_depth
    /\ Top.path \notin processed
    /\ Top.output_lines = <<>>

(***************************************************************************)
(* Termination of the traversal.                                           *)
(***************************************************************************)
\* the child collections the documents of a collection list
RECURSIVE SubsListedBy(_)
SubsListedBy(docs) ==
    IF docs = <<>> THEN 0 ELSE Len(Head(docs).subs) + SubsListedBy(Tail(docs))

\* the child collections listed by the collections of `paths` that lie above
\* the last level (a collection at path p is explored at level Len(p) - 1)
RECURSIVE SubsListedIn(_, _, _)
SubsListedIn(store, paths, max_depth) ==
    IF paths = {} THEN 0
    ELSE LET path == CHOOSE q \in paths : TRUE
         IN (IF Len(path) - 1 < max_depth - 1
             THEN SubsListedBy(store.cols[path].docs) ELSE 0)
            + SubsListedIn(store, paths \ {path}, max_depth)

\* the roots listed, plus the children listed above the last level
CallBound ==
    Len(cfg.store.roots) + SubsListedIn(cfg.store, DOMAIN cfg.store.cols, cfg.max_depth)

(***************************************************************************)
(* C6: with every remote operation ending, explore_database terminates,    *)
(* and the number of calls of process_collection never exceeds the number  *)
(* of roots listed plus the number of child collections that documents     *)
(* above the last level list, however often a child is repeated or refers  *)
(* back to an explored path.                                               *)
(***************************************************************************)
C6_Terminates ==
    /\ [](calls <= CallBound)
    /\ <>(ed.pc = "done")

\* the run has ended on a store whose listings repeat a child and refer back
\* to an explored path: more calls were made than paths explored
C6_Witness ==
    /\ ed.pc = "done"
    /\ cfg.store = StoreCyclic
    /\ Cardinality(processed) = 3
    /\ calls > Cardinality(processed)

(***************************************************************************)
(* C7: with statistics enabled, a run whose listing of the root            *)
(* collections timed out or failed returns the header, the marker of the   *)
(* listing failure and then the statistics block, showing 0 collections,   *)
(* 0 documents sampled and 0 fields analyzed.                              *)
(***************************************************************************)
HasZeroStatistics(output, from) ==
    \E k \in from..Len(output) :
        /\ output[k].t = "statistics"
        /\ Len(output) >= k + 3
        /\ \A q \in 1..3 : output[k + q].t = "stat" /\ output[k + q].n = 0

C7_ListingFailureReportHasStatistics ==
    (/\ ed.pc = "done"
     /\ cfg.include_stats
     /\ Len(ed.output) >= 4
     /\ ed.output[4].t \in {"timed_out_listing", "error_listing"})
        => HasZeroStatistics(ed.output, 5)

(***************************************************************************)
(* C8: when the listing of the root collections has timed out (or has      *)
(* failed), explore_database ends there: the report holds exactly one      *)
(* marker of the listing failure and no collection block, no collection    *)
(* was explored, and the timeouts counter (the errors counter) is >= 1.    *)
(***************************************************************************)
ListingMarkers ==
    {"timed_out_listing", "error_listing", "timeout_listing", "error_listing_raised"}

C8_ListingFailureEndsRun ==
    [][(ed.pc = "listing" /\ call.state = "returned"
            /\ (call.ret.timed_out \/ call.ret.error # "None"))
        => /\ ed'.pc = "done"
           /\ Cardinality({k \in 1..Len(ed'.output) :
                              ed'.output[k].t \in ListingMarkers}) = 1
           /\ \A k \in 1..Len(ed'.output) : ~IsBlockLine(ed'.output[k])
           /\ stack' = <<>> /\ processed' = {} /\ calls' = 0
           /\ stats'.collections = 0
           /\ call.ret.timed_out => stats'.timeouts >= 1
           /\ ~call.ret.timed_out => stats'.errors >= 1]_vars

\* the run has ended on a listing that timed out
C8_Witness ==
    /\ ed.pc = "done"
    /\ Len(ed.output) = 4
    /\ ed.output[4].t = "timed_out_listing"
    /\ stats.timeouts = 1
    /\ processed = {}

(***************************************************************************)
(* C9: when the document sample of a collection fails with                 *)
(* PermissionDenied, process_collection returns the collection header      *)
(* followed by the permission-denied marker and nothing else; no listing   *)
(* of child collections is submitted and no counter changes.               *)
(***************************************************************************)
C9_PermissionDeniedSample ==
    [][(stack # <<>> /\ Top.pc = "sample_wait" /\ call.state = "returned"
            /\ ~call.ret.timed_out /\ call.ret.error = "PermissionDenied")
        => /\ Len(stack') = Len(stack)
           /\ stack'[Len(stack)].pc = "return"
           /\ Len(stack'[Len(stack)].output_lines) = 2
           /\ stack'[Len(stack)].output_lines[1].t = "collection"
           /\ stack'[Len(stack)].output_lines[1].p = Top.path
           /\ stack'[Len(stack)].output_lines[2].t = "permission_denied"
           /\ call'.state = "idle" /\ worker'.state = "none"
           /\ stats' = stats]_vars

\* a collection has returned its header and the permission-denied marker
C9_Witness ==
    /\ stack # <<>>
    /\ Top.pc = "return"
    /\ Len(Top.output_lines) = 2
    /\ Top.output_lines[1].t = "collection"
    /\ Top.output_lines[2].t = "permission_denied"
    /\ stats.documents = 0

(***************************************************************************)
(* C10: a remote call that fails with PermissionDenied leaves the errors   *)
(* counter as it was.                                                      *)
(***************************************************************************)
C10_PermissionDeniedNotCounted ==
    [][(call.state = "waiting" /\ worker.state = "done"
            /\ IsPermissionDenied(worker.raised))
        => stats'.errors = stats.errors]_vars

(***************************************************************************)
(* C11: when the sample fetch of a collection has timed out,               *)
(* process_collection returns the collection header followed by a timeout  *)
(* marker, which is not the marker of a collection without documents, and  *)
(* no document header.                                                     *)
(***************************************************************************)
C11_SampleTimeoutMarker ==
    [][(stack # <<>> /\ Top.pc = "sample_wait" /\ call.state = "returned"
            /\ call.ret.timed_out)
        => /\ Len(stack') = Len(stack)
           /\ stack'[Len(stack)].pc = "return"
           /\ \A k \in 1..Len(stack'[Len(stack)].output_lines) :
                 stack'[Len(stack)].output_lines[k].t \notin {"document", "no_documents"}
           /\ \E k \in 1..Len(stack'[Len(stack)].output_lines) :
                 stack'[Len(stack)].output_lines[k].t = "docs_timeout"]_vars

(***************************************************************************)
(* C12: when the listing of a sampled document's child collections has     *)
(* timed out or failed, exactly one marker line is appended to what the    *)
(* collection has emitted (the document's header and field lines stay),    *)
(* and the loop goes on with the next sampled document, if there is one.   *)
(***************************************************************************)
C12_ChildListingFailureIsLocal ==
    [][(stack # <<>> /\ Top.pc = "subs_wait" /\ call.state = "returned"
            /\ (call.ret.timed_out \/ call.ret.error # "None"))
        => LET f == stack'[Len(stack)]
           IN /\ Len(stack') = Len(stack)
              /\ Len(f.output_lines) = Len(Top.output_lines) + 1
              /\ SubSeq(f.output_lines, 1, Len(Top.output_lines)) = Top.output_lines
              /\ f.output_lines[Len(f.output_lines)].t =
                    (IF call.ret.timed_out THEN "subcollections_timeout"
                     ELSE "subcollections_error")
              /\ Top.output_lines[Len(Top.output_lines)].t = "field"
              /\ f.exc = "None"
              /\ f.i = Top.i + 1
              /\ f.pc = (IF Top.i < Len(Top.docs) THEN "doc" ELSE "return")]_vars

\* after the child listing of one document timed out, the next sampled
\* document of the same collection got its header and its own child listing
C12_Witness ==
    /\ stack # <<>>
    /\ Top.pc = "subs_wait"
    /\ Top.i = 2
    /\ \E k \in 1..Len(Top.output_lines) :
        /\ Top.output_lines[k].t = "subcollections_timeout"
        /\ k < Len(Top.output_lines)
        /\ Top.output_lines[k + 1].t = "document"
        /\ Top.output_lines[k + 1].s = Top.docs[2].id

(***************************************************************************)
(* C13: every outcome of _run_with_timeout is exactly one of: success      *)
(* (not timed out, no error), timed out (no result, no error), error (not  *)
(* timed out, no result, an error).                                        *)
(***************************************************************************)
C13_OutcomeExactlyOneCase ==
    call.state \in {"exiting", "returned"} =>
        LET r == call.ret
            success == ~r.timed_out /\ r.error = "None"
            timedout == r.timed_out /\ r.result = NoneV /\ r.error = "None"
            failed == ~r.timed_out /\ r.result = NoneV /\ r.error # "None"
        IN \/ success /\ ~timedout /\ ~failed
           \/ ~success /\ timedout /\ ~failed
           \/ ~success /\ ~timedout /\ failed

(***************************************************************************)
(* C14: during a call of _run_with_timeout only the timeouts and errors    *)
(* counters may change, and only as the outcome says: success returns the  *)
(* operation's result and changes no counter, a timeout returns no result  *)
(* and adds 1 to timeouts only, a failure returns the raised error and     *)
(* adds 1 to errors only.                                                  *)
(***************************************************************************)
C14_RunWithTimeoutFrame ==
    [][call.state \in {"waiting", "exiting"}
        => /\ processed' = processed /\ ctree' = ctree
           /\ stats'.collections = stats.collections
           /\ stats'.documents = stats.documents
           /\ stats'.fields = stats.fields
           /\ (call.state = "exiting" \/ call'.state = "waiting")
                 => stats' = stats /\ call'.ret = call.ret
           /\ (call.state = "waiting" /\ call'.state # "waiting")
                 => LET r == call'.ret
                    IN IF r.timed_out
                       THEN /\ r.result = NoneV
                            /\ stats'.timeouts = stats.timeouts + 1
                            /\ stats'.errors = stats.errors
                       ELSE IF r.error # "None"
                       THEN /\ r.error = worker.raised
                            /\ stats'.errors = stats.errors + 1
                            /\ stats'.timeouts = stats.timeouts
                       ELSE /\ r.result = worker.result
                            /\ stats' = stats]_vars

\* a call has returned timed out: one timeout counted, no error
C14_Witness ==
    /\ call.state = "returned"
    /\ call.ret.timed_out
    /\ stats.timeouts = 1
    /\ stats.errors = 0

(***************************************************************************)
(* Observations of a direct call of describe_type.                         *)
(***************************************************************************)
TypeReturned == pf.kind = "describe_type" /\ pf.pc = "returned"

\* the first n elements of a list, all of them if it has fewer
Leading(items, n) == SubSeq(items, 1, IF n <= Len(items) THEN n ELSE Len(items))

TimestampLike(value) == "timestamp" \in value.caps
GeopointLike(value) == {"latitude", "longitude"} \subseteq value.caps
ReferenceLike(value) == "path" \in value.caps

\* the first token of the labels of the primitive and container types
PlainLabels == {"string", "boolean", "integer", "float", "bytes", "null", "map", "array<"}

\* the element labels a label array<mixed:t1,...,tn> lists, in order: the
\* tokens between "mixed:" and the closing ">" cut at the commas that lie
\* outside every nested array<...>
RECURSIVE SplitLabels(_, _, _, _)
SplitLabels(toks, depth, cur, acc) ==
    IF toks = <<>> THEN (IF cur = <<>> /\ acc = <<>> THEN <<>> ELSE Append(acc, cur))
    ELSE IF Head(toks) = "," /\ depth = 0
    THEN SplitLabels(Tail(toks), 0, <<>>, Append(acc, cur))
    ELSE SplitLabels(Tail(toks),
                     depth + (IF Head(toks) = "array<" THEN 1
                              ELSE IF Head(toks) = ">" THEN -1 ELSE 0),
                     Append(cur, Head(toks)), acc)

IsMixedLabel(label) == Len(label) >= 3 /\ label[1] = "array<" /\ label[2] = "mixed:"
MixedParts(label) == SplitLabels(SubSeq(label, 3, Len(label) - 1), 0, <<>>, <<>>)

C16_LabelDependsOnSample ==
    (TypeReturned /\ pf.sample_arrays /\ pf.value.py = "list" /\ Len(pf.value.items) > 0)
        => \A other \in ArrayValues :
              (/\ Len(other.items) > 0
               /\ Leading(other.items, pf.array_sample_size)
                     = Leading(pf.value.items, pf.array_sample_size))
                 => describe_type(other, pf.sample_arrays, pf.array_sample_size)
                        = pf.label

\* an array of two integers and a string was described with sample size 2
\* as an array of integers
C16_Witness ==
    /\ TypeReturned
    /\ pf.sample_arrays /\ pf.array_sample_size = 2
    /\ pf.value = VList(<<VInt, VInt, VStr>>)
    /\ pf.label = <<"array<", "integer", ">">>

(***************************************************************************)
(* C17: the element labels listed by a label array<mixed:...> are in       *)
(* strictly ascending string order (so none is repeated).                  *)
(***************************************************************************)
C17_MixedLabelsSorted ==
    (TypeReturned /\ IsMixedLabel(pf.label))
        => LET parts == MixedParts(pf.label)
           IN \A i \in 1..Len(parts) - 1 : LabelLess(parts[i], parts[i + 1])

\* an array given as string, integer, string was described as
\* array<mixed:integer,string>
C17_Witness ==
    /\ TypeReturned
    /\ pf.value = VList(<<VStr, VInt, VStr>>)
    /\ pf.label = <<"array<", "mixed:", "integer", ",", "string", ">">>

(***************************************************************************)
(* C18: a value that is timestamp-like is labelled timestamp; otherwise a  *)
(* geopoint-like value is labelled geopoint; otherwise a reference-like    *)
(* value is labelled as a reference; and none of them is labelled map,     *)
(* array or a primitive type.                                              *)
(***************************************************************************)
C18_StructuralChecksFirst ==
    (TypeReturned /\ pf.value.py # "NoneType")
        => /\ TimestampLike(pf.value) => pf.label = <<"timestamp">>
           /\ (~TimestampLike(pf.value) /\ GeopointLike(pf.value))
                 => pf.label = <<"geopoint">>
           /\ (~TimestampLike(pf.value) /\ ~GeopointLike(pf.value)
                 /\ ReferenceLike(pf.value))
                 => pf.label = <<"reference->", pf.value.path>>
           /\ (TimestampLike(pf.value) \/ GeopointLike(pf.value)
                 \/ ReferenceLike(pf.value))
                 => pf.label[1] \notin PlainLabels

\* a value exposing every structural attribute was labelled timestamp
C18_Witness ==
    /\ TypeReturned
    /\ pf.value.caps = Capabilities
    /\ pf.label = <<"timestamp">>

(***************************************************************************)
(* Observations of a direct call of describe_fields: the step that makes   *)
(* it, the lines it appends, and the value the map holds at a key.         *)
(***************************************************************************)
FieldsCalled == pf.kind = "describe_fields" /\ pf.pc = "call"

Appended == SubSeq(pf'.output_lines, Len(pf.output_lines) + 1, Len(pf'.output_lines))

ValueAt(data, key) == data[CHOOSE i \in 1..Len(data) : data[i].key = key].value

\* what describe_fields appends for a map at a level, on its own
LinesOf(data, level) ==
    describe_fields(data, level, [lines |-> <<>>, fields |-> 0],
                    pf.sample_arrays, pf.array_sample_size).lines

(***************************************************************************)
(* C19: describe_fields keeps the lines it was given and appends, for the  *)
(* keys of the map in strictly ascending order, one line per key at the    *)
(* indentation of the level, carrying the label of the key's value; the    *)
(* line of a key whose value is a map is followed at once by that map's    *)
(* lines at level + 1, all indented deeper, and the line of any other key  *)
(* is followed at once by the line of the next key.                        *)
(***************************************************************************)
C19_FieldsSortedAndNested ==
    [][FieldsCalled =>
        LET new == Appended
            tops == {i \in 1..Len(new) : new[i].n = 2 * pf.level}
            After(i) == IF \E j \in tops : j > i
                        THEN CHOOSE j \in tops : j > i /\ \A q \in tops : q > i => j <= q
                        ELSE Len(new) + 1
        IN /\ SubSeq(pf'.output_lines, 1, Len(pf.output_lines)) = pf.output_lines
           /\ Cardinality(tops) = Len(pf.data)
           /\ {new[i].s : i \in tops} = {pf.data[i].key : i \in 1..Len(pf.data)}
           /\ new # <<>> => 1 \in tops
           /\ \A i \in 1..Len(new) : new[i].t = "field" /\ new[i].n >= 2 * pf.level
           /\ \A i, j \in tops : i < j => Rank(new[i].s) < Rank(new[j].s)
           /\ \A i \in tops :
                LET value == ValueAt(pf.data, new[i].s)
                    block == SubSeq(new, i + 1, After(i) - 1)
                IN /\ new[i].ty = describe_type(value, pf.sample_arrays,
                                                pf.array_sample_size)
                   /\ IF value.py = "dict"
                      THEN block = LinesOf(value.items, pf.level + 1)
                      ELSE block = <<>>]_vars

\* a map given as name, then meta (a map given as name, then age), was
\* described at level 1: meta, its age and its name two spaces deeper, name
C19_Witness ==
    /\ pf.kind = "describe_fields" /\ pf.pc = "returned"
    /\ pf.level = 1
    /\ pf.data = <<Item("name", VStr),
                   Item("meta", VDict(<<Item("name", VInt), Item("age", VInt)>>))>>
    /\ Len(pf.output_lines) = 4
    /\ pf.output_lines[1].s = "meta" /\ pf.output_lines[1].n = 2
    /\ pf.output_lines[2].s = "age" /\ pf.output_lines[2].n = 4
    /\ pf.output_lines[3].s = "name" /\ pf.output_lines[3].n = 4
    /\ pf.output_lines[4].s = "name" /\ pf.output_lines[4].n = 2

(***************************************************************************)
(* C20: describe_fields adds to the fields counter the number of lines it  *)
(* appends, those of nested maps included, and changes no other counter;   *)
(* on an empty map it appends nothing and changes no counter.              *)
(***************************************************************************)
C20_FieldsCounted ==
    [][FieldsCalled =>
        /\ stats'.fields = stats.fields + Len(Appended)
        /\ stats' = [stats EXCEPT !.fields = stats'.fields]
        /\ pf.data = <<>> => Appended = <<>> /\ stats' = stats]_vars

\* a map with a nested map of two keys was described: three lines, three
\* fields counted
C20_Witness ==
    /\ pf.kind = "describe_fields" /\ pf.pc = "returned"
    /\ pf.data = <<Item("meta", VDict(<<Item("name", VInt), Item("age", VInt)>>))>>
    /\ Len(pf.output_lines) = 3
    /\ stats.fields = 3

(***************************************************************************)
(* Observations of an export: the documents the written structure holds    *)
(* and the documents describe_fields was called on, each with its          *)
(* collection, its id and the set of its (field name, type) pairs.         *)
(***************************************************************************)
ExportedDocs(collections_data) ==
    UNION {{[path |-> collections_data[c].key,
             id |-> collections_data[c].value[d].key,
             fields |-> {<<f.name, f.type>> :
                           f \in SeqToSet(collections_data[c].value[d].value)}] :
                d \in 1..Len(collections_data[c].value)} :
           c \in 1..Len(collections_data)}

RecordedDocs ==
    {[path |-> described[k].path, id |-> described[k].id,
      fields |-> {<<l.s, l.ty>> : l \in SeqToSet(described[k].lines)}] :
        k \in 1..Len(described)}

JsonExported == mn.pc = "returned" /\ mn.format = "json" /\ ~mn.file.none

(***************************************************************************)
(* C21: the structure export_to_file writes in format json for the report  *)
(* of a traversal holds, for each document of each collection, exactly the *)
(* (field name, type) pairs describe_fields recorded for that document.    *)
(***************************************************************************)
C21_ExportKeepsRecordedFields ==
    JsonExported => ExportedDocs(mn.file.val) = RecordedDocs

(***************************************************************************)
(* Observations of the tree block of a finished report.                    *)
(***************************************************************************)
\* the trees spliced into a report (at most one)
TreesIn(output) == {output[k].x : k \in {q \in 1..Len(output) : output[q].t = "tree"}}

\* lines j < k of a tree with no line of the kinds `stops` between them
SameGroup(tree, j, k, stops) ==
    j < k /\ \A q \in (j + 1)..(k - 1) : tree[q].kind \notin stops

\* the lines of one kind are in ascending order of name within each group
AscendingWithin(tree, kind, stops) ==
    \A j, k \in 1..Len(tree) :
        (tree[j].kind = kind /\ tree[k].kind = kind /\ SameGroup(tree, j, k, stops))
            => Rank(tree[j].name) < Rank(tree[k].name)

(***************************************************************************)
(* C22: in the tree of a report the top-level collections are in ascending *)
(* order of path, the documents under each collection in ascending order   *)
(* of id, and the subcollections under each document in ascending order of *)
(* name.                                                                   *)
(***************************************************************************)
C22_TreeSortedAtEveryLevel ==
    ed.pc = "done" =>
        \A tree \in TreesIn(ed.output) :
            /\ AscendingWithin(tree, "col", {})
            /\ AscendingWithin(tree, "doc", {"col"})
            /\ AscendingWithin(tree, "subcol", {"col", "doc"})

\* the summaries of ct recorded in another order, each subcollection still
\* after its root collection (what a depth-first traversal records when the
\* store lists siblings in another order)
Reordered(ct) ==
    {[k \in 1..Len(ct) |-> ct[perm[k]]] :
        perm \in {f \in [1..Len(ct) -> 1..Len(ct)] :
                    /\ \A i, j \in 1..Len(ct) : i # j => f[i] # f[j]
                    /\ \A i, j \in 1..Len(ct) :
                          (Len(ct[f[j]].path) > 1 /\ ct[f[i]].path = <<ct[f[j]].path[1]>>)
                              => i < j}}

(***************************************************************************)
(* C23: the tree depends only on the set of summaries: the same summaries  *)
(* recorded in another traversal order render the same tree; and the step  *)
(* that renders the tree leaves the visited set, the summaries and the     *)
(* counters as they are.                                                   *)
(***************************************************************************)
C23_TreeIndependentOfOrder ==
    /\ [](ed.pc = "done" =>
            \A other \in Reordered(ctree) :
                generate_ascii_tree(other) = generate_ascii_tree(ctree))
    /\ [][(ed.pc = "loop_wait" /\ ed'.pc = "done")
            => /\ ctree' = ctree /\ processed' = processed /\ stats' = stats]_vars

(***************************************************************************)
(* C24: once KeyboardInterrupt has been raised during the exploration, no  *)
(* further collection is explored and no remote call is dispatched; main   *)
(* then returns 130 without writing a report, and it returns 130 in no     *)
(* other case (0 after an export, 1 after a failed export).                *)
(***************************************************************************)
C24_InterruptReturns130 ==
    /\ [](mn.pc = "returned" =>
            /\ mn.interrupted => (mn.code = 130 /\ mn.file.none)
            /\ ~mn.interrupted => mn.code \in {0, 1}
            /\ mn.code = 0 <=> ~mn.file.none)
    /\ [](mn.pc # "none" /\ mn.interrupted => ed.pc # "done")
    /\ [][(mn.pc # "none" /\ mn.interrupted)
            => /\ UNCHANGED <<processed, ctree, stats, calls, described>>
               /\ call'.state = "idle"
               /\ Len(stack') <= Len(stack)]_vars

\* the run was interrupted after the first root collection had been
\* explored and before the second was: main has returned 130, nothing was
\* written, and the worker of the abandoned call has ended
C24_Witness ==
    /\ mn.pc = "returned" /\ mn.interrupted
    /\ mn.code = 130 /\ mn.file.none
    /\ Len(ed.collections) = 2
    /\ HeadersOf(ed.output, <<ed.collections[1]>>) # {}
    /\ <<ed.collections[2]>> \notin processed
    /\ worker.state = "none"

(***************************************************************************)
(* Observations of the bounded calls.                                      *)
(***************************************************************************)
\* the step submits an operation to a new executor
Dispatches == call'.state = "waiting" /\ call.state # "waiting"

(***************************************************************************)
(* C25: a bounded call is dispatched only when no call is being waited on  *)
(* and no worker is alive; a worker is alive only while the call that      *)
(* submitted its operation awaits it.                                      *)
(***************************************************************************)
C25_OneWorkerAtATime ==
    /\ [](worker.state # "none" =>
            /\ call.state \in {"waiting", "exiting"}
            /\ worker.op = call.op)
    /\ [](call.state = "waiting" => worker.state \in {"running", "done"})
    /\ [][Dispatches =>
            /\ call.state \in {"idle", "returned"}
            /\ worker.state = "none"]_vars

\* a call is being waited on after an earlier call of the run timed out
C25_Witness ==
    /\ call.state = "waiting"
    /\ worker.state = "running"
    /\ stats.timeouts >= 1

\* the step is the end of the operation in the worker thread
WorkerEnds == worker.state = "running" /\ worker'.state = "done"

(***************************************************************************)
(* C26: the end of an operation in its worker thread changes neither the   *)
(* visited set, the counters, the summaries nor any line accumulated, and  *)
(* leaves the activations of the traversal where they are; once a call has *)
(* timed out its outcome carries no result and stays as it is whatever the *)
(* worker does, so what the operation returns late reaches no caller.      *)
(***************************************************************************)
C26_WorkerWritesNothing ==
    /\ [][WorkerEnds => UNCHANGED <<processed, stats, ctree, ed, stack, call>>]_vars
    /\ [][call.state = "exiting"
            => /\ call'.ret = call.ret
               /\ UNCHANGED <<processed, stats, ctree, ed, stack>>]_vars
    /\ [](call.state \in {"exiting", "returned"} /\ call.ret.timed_out
            => call.ret.result = NoneV)

\* the sample fetch of a collection has timed out, and its operation has
\* then returned documents that the outcome of the call does not carry
C26_Witness ==
    /\ call.state = "exiting"
    /\ call.ret.timed_out /\ call.ret.result = NoneV
    /\ worker.state = "done"
    /\ worker.op.kind = "stream"
    /\ ~worker.result.none /\ Len(worker.result.val) > 0
    /\ stats.documents = 0

(***************************************************************************)
(* Observations of the order of a report: the positions of its document    *)
(* headers, matched in order with the calls of describe_fields, and the    *)
(* places the store gives a root and a document in its listings.           *)
(***************************************************************************)
DocumentPositions(lines) == {q \in 1..Len(lines) : lines[q].t = "document"}

\* the position of the k-th document header
DocumentAt(lines, k) ==
    CHOOSE q \in DocumentPositions(lines) :
        Cardinality({r \in DocumentPositions(lines) : r <= q}) = k

\* the position of the last field line of the k-th document
FieldsEnd(lines, k) == DocumentAt(lines, k) + Len(described[k].lines)

\* the place of a root in the listing of the roots
RootIndex(name) ==
    CHOOSE i \in 1..Len(ed.collections) :
        /\ ed.collections[i] = name
        /\ \A q \in 1..(i - 1) : ed.collections[q] # name

\* the place of a document in what its collection streams
DocIndex(path, id) ==
    CHOOSE i \in 1..Len(ColAt(cfg.store, path).docs) : ColAt(cfg.store, path).docs[i].id = id

\* the collection and the document a subcollection path lies under
ParentCollection(path) == SubSeq(path, 1, Len(path) - 2)
ParentDocument(path) == path[Len(path) - 1]

(***************************************************************************)
(* C27: in a finished report the document headers are those of the calls   *)
(* of describe_fields in the order they were made, each followed by its    *)
(* field lines; the headers of the root collections are in the order the   *)
(* roots were listed; the documents of a collection are in the order the   *)
(* store streamed them; and the header and the documents of a              *)
(* subcollection lie after the field lines of its parent document and      *)
(* before the header of the next document of the parent collection.        *)
(***************************************************************************)
C27_ReportInTraversalOrder ==
    ed.pc = "done" =>
        LET out == ed.output
            n == Len(described)
            Of(path) == {k \in 1..n : described[k].path = path}
        IN /\ Cardinality(DocumentPositions(out)) = n
           /\ \A k \in 1..n :
                /\ out[DocumentAt(out, k)].s = described[k].id
                /\ SubSeq(out, DocumentAt(out, k) + 1, FieldsEnd(out, k)) = described[k].lines
           /\ \A g, h \in 1..Len(out) :
                (/\ g < h
                 /\ out[g].t = "collection" /\ Len(out[g].p) = 1
                 /\ out[h].t = "collection" /\ Len(out[h].p) = 1)
                    => RootIndex(out[g].p[1]) < RootIndex(out[h].p[1])
           /\ \A k, l \in 1..n :
                (k < l /\ described[k].path = described[l].path)
                    => DocIndex(described[k].path, described[k].id)
                          < DocIndex(described[l].path, described[l].id)
           /\ \A h \in 1..Len(out) :
                (out[h].t = "collection" /\ Len(out[h].p) > 1)
                    => /\ \A m \in Of(out[h].p) : h < DocumentAt(out, m)
                       /\ \E k \in Of(ParentCollection(out[h].p)) :
                            /\ described[k].id = ParentDocument(out[h].p)
                            /\ FieldsEnd(out, k) < h
                            /\ \A l \in Of(ParentCollection(out[h].p)) :
                                 l > k =>
                                    /\ h < DocumentAt(out, l)
                                    /\ \A m \in Of(out[h].p) :
                                         FieldsEnd(out, m) < DocumentAt(out, l)

\* a run without failures on the store that lists root b before root a and
\* document d2 before d1: b's block precedes a's, and the block of b/d2/t
\* lies between the field line of b/d2 and the header of b/d1
C27_Witness ==
    /\ ed.pc = "done"
    /\ cfg.store = StoreSiblings
    /\ faults = 0
    /\ Len(described) = 4
    /\ described[1].path = <<"b">> /\ described[1].id = "d2"
    /\ described[2].path = <<"b", "d2", "t">>
    /\ described[3].path = <<"b">> /\ described[3].id = "d1"
    /\ described[4].path = <<"a">>
    /\ \E h \in 1..Len(ed.output) :
        /\ ed.output[h].t = "collection" /\ ed.output[h].p = <<"b", "d2", "t">>
        /\ FieldsEnd(ed.output, 1) < h
        /\ h < DocumentAt(ed.output, 3)

(***************************************************************************)
(* C28: when the loop over the sample comes to a document without data     *)
(* (and to_dict() does not raise), no line is appended and no counter      *)
(* changes, and above the last level the listing of the document's child   *)
(* collections is submitted all the same.                                  *)
(***************************************************************************)
C28_EmptyDocumentStillListsChildren ==
    [][(/\ stack # <<>> /\ Top.pc = "doc"
        /\ Len(Top.docs[Top.i].data) = 0
        /\ faults' = faults /\ stack' # stack)
        => /\ Len(stack') = Len(stack)
           /\ stack'[Len(stack)].output_lines = Top.output_lines
           /\ stats' = stats
           /\ Top.level < cfg.max_depth - 1
                 => /\ call'.state = "waiting"
                    /\ call'.op.kind = "list_subs"
                    /\ call'.op.path = Top.docs[Top.i].ref]_vars

(***************************************************************************)
(* C29: the listing of a document's child collections is submitted only by *)
(* a process_collection whose level is below max_depth - 1, for the        *)
(* reference of the document it is at; a process_collection called from    *)
(* another gets as its path the path of that document's reference followed *)
(* by one of the ids listed, and as its level the caller's level + 2; and  *)
(* with max_depth = 1 no such listing is ever submitted, no call is        *)
(* nested, and no path of more than one segment is visited, summarised or  *)
(* given a header.                                                         *)
(***************************************************************************)
C29_ChildCollectionsBelowDepth ==
    /\ [][(Dispatches /\ call'.op.kind = "list_subs")
            => /\ stack # <<>>
               /\ Top.level < cfg.max_depth - 1
               /\ call'.op.path = Top.docs[Top.i].ref]_vars
    /\ [][(Len(stack') > Len(stack) /\ stack # <<>>)
            => LET child == stack'[Len(stack')]
                   doc == Top.docs[Top.i]
               IN /\ Len(stack') = Len(stack) + 1
                  /\ Top.level < cfg.max_depth - 1
                  /\ \E k \in 1..Len(doc.subs) : child.path = doc.ref \o <<doc.subs[k]>>
                  /\ child.level = Top.level + 2]_vars
    /\ [](cfg.max_depth = 1 =>
            /\ call.op.kind # "list_subs"
            /\ Len(stack) <= 1
            /\ \A path \in processed : Len(path) = 1
            /\ \A k \in 1..Len(ctree) : Len(ctree[k].path) = 1
            /\ \A k \in 1..Len(AllLines) :
                  AllLines[k].t = "collection" => Len(AllLines[k].p) = 1)

\* the subcollection s of document a/d1 is being explored at level 2, under
\* the path a/d1/s, and has its header
C29_Witness ==
    /\ Len(stack) = 2
    /\ stack[1].path = <<"a">> /\ stack[1].level = 0
    /\ stack[1].docs[stack[1].i].ref = <<"a", "d1">>
    /\ Top.path = <<"a", "d1", "s">> /\ Top.level = 2
    /\ HeadersOf(Top.output_lines, Top.path) # {}

\* the kinds of line of the 'Database Structure' block, in order
TreeBlock == <<"database_structure", "fence", "tree", "fence", "blank">>

(***************************************************************************)
(* C30: in a finished report of a run that recorded at least one summary,  *)
(* the lines after the three header lines (title, generation time,         *)
(* project) are the five lines of the 'Database Structure' block, holding  *)
(* the tree of the summaries; every line the collections produced comes    *)
(* after the block, and the block occurs once.  A run that recorded no     *)
(* summary has no such block.                                              *)
(***************************************************************************)
C30_TreeAfterHeader ==
    ed.pc = "done" =>
        LET out == ed.output
            blocks == {k \in 1..Len(out) : out[k].t = "database_structure"}
        IN IF ctree # <<>>
           THEN /\ Len(out) >= 3 + Len(TreeBlock)
                /\ <<out[1].t, out[2].t, out[3].t>> = <<"title", "generated", "project">>
                /\ \A q \in 1..Len(TreeBlock) : out[3 + q].t = TreeBlock[q]
                /\ out[6].x = generate_ascii_tree(ctree)
                /\ blocks = {4}
                /\ \A k \in 1..Len(out) :
                      (out[k].t \in {"collection", "document", "field", "col_error",
                                     "col_timeout", "no_documents"})
                          => k > 3 + Len(TreeBlock)
                /\ \A k \in 1..Len(out) : out[k].t = "tree" => k = 6
           ELSE blocks = {} /\ \A k \in 1..Len(out) : out[k].t # "tree"

\* a finished report whose tree block is followed at once by the header of
\* the first root collection, with the blocks of two collections after it
C30_Witness ==
    /\ ed.pc = "done"
    /\ Len(ctree) >= 2
    /\ Len(ed.output) > 9
    /\ ed.output[4].t = "database_structure"
    /\ ed.output[9].t = "collection"
    /\ ed.output[9].p = <<ed.collections[1]>>

(***************************************************************************)
(* C31: with array sampling disabled a non-empty array is labelled         *)
(* array<T>, T being the label of its first element, so every array with   *)
(* the same first element gets the same label; an empty array is labelled  *)
(* array<?> with sampling enabled or disabled.                             *)
(***************************************************************************)
C31_UnsampledArrayUsesFirstElement ==
    (TypeReturned /\ pf.value \in ArrayValues) =>
        /\ pf.value.items = <<>> => pf.label = <<"array<", "?", ">">>
        /\ (pf.value.items # <<>> /\ ~pf.sample_arrays) =>
            /\ \E first \in ArrayElements :
                /\ first = pf.value.items[1]
                /\ pf.label = <<"array<">>
                                \o describe_type(first, FALSE, pf.array_sample_size)
                                \o <<">">>
            /\ \A other \in ArrayValues :
                (other.items # <<>> /\ other.items[1] = pf.value.items[1])
                    => describe_type(other, FALSE, pf.array_sample_size) = pf.label

\* an array of an integer and a string was described without sampling as an
\* array of integers
C31_Witness ==
    /\ TypeReturned
    /\ ~pf.sample_arrays
    /\ pf.array_sample_size = MaxSample
    /\ pf.value = VList(<<VInt, VStr>>)
    /\ pf.label = <<"array<", "integer", ">">>

\* the step on which process_collection takes the answer of its count query
CountAnswered ==
    /\ stack # <<>> /\ Top.pc = "count_wait"
    /\ call.state = "returned"
    /\ stack' # stack

(***************************************************************************)
(* C32: when the count query returns n documents the count string is "n"   *)
(* for n < 1000 and "1000+" for the 1000 documents of the capped query,    *)
(* and the collection header and the summary carry it; when the count      *)
(* query times out or fails the summary records "unknown" and the header   *)
(* carries no count; either way the document sample is fetched next.       *)
(***************************************************************************)
C32_CountString ==
    [][CountAnswered =>
        LET f == stack'[Len(stack')]
            hdr == f.output_lines[Len(f.output_lines)]
            entry == ctree'[Len(ctree')]
        IN /\ Len(stack') = Len(stack)
           /\ Len(f.output_lines) = Len(Top.output_lines) + 1
           /\ Len(ctree') = Len(ctree) + 1
           /\ hdr.t = "collection" /\ hdr.p = Top.path
           /\ entry.path = Top.path
           /\ f.pc = "sample_wait"
           /\ call'.state = "waiting" /\ call'.op.kind = "stream"
           /\ call'.op.path = Top.path
           /\ IF ~call.ret.timed_out /\ call.ret.error = "None"
              THEN \E n \in 0..CountLimit :
                    /\ call.ret.result = Some(<<n>>)
                    /\ hdr.n = n
                    /\ hdr.s = (IF n < CountLimit THEN "n" ELSE "n+")
                    /\ entry.doc_count = n
                    /\ entry.doc_count_str = hdr.s
              ELSE /\ hdr.s = "none"
                   /\ entry.doc_count_str = "unknown"]_vars

\* one collection was counted to the cap of 1000, the count of another
\* failed, and a document of that other collection was sampled afterwards
C32_Witness ==
    /\ cfg.include_stats
    /\ \E i, j \in 1..Len(ctree) :
        /\ ctree[i].doc_count_str = "n+" /\ ctree[i].doc_count = CountLimit
        /\ ctree[j].doc_count_str = "unknown"
        /\ \E k \in HeadersOf(AllLines, ctree[j].path) :
            /\ AllLines[k].s = "none"
            /\ k < Len(AllLines)
            /\ AllLines[k + 1].t = "document"

\* the remote operation in flight or just answered, if any
FetchKinds == {call.op.kind, worker.op.kind} \ {"none"}

(***************************************************************************)
(* C33: with include_stats false no count query is ever issued (the fetch  *)
(* made for a collection is its document sample), no collection header     *)
(* carries a count, every summary records "unknown", and the report has no *)
(* statistics block.                                                       *)
(***************************************************************************)
C33_NoStatsNoCounts ==
    ~cfg.include_stats =>
        /\ "count" \notin FetchKinds
        /\ (stack # <<>> /\ Top.pc \in {"count_wait", "sample_wait"})
              => (Top.pc = "sample_wait" /\ call.op.kind = "stream"
                    /\ call.op.path = Top.path /\ call.op.limit = cfg.max_docs)
        /\ \A k \in 1..Len(AllLines) :
            /\ AllLines[k].t = "collection" => AllLines[k].s = "none"
            /\ AllLines[k].t \notin {"statistics", "stat", "duration"}
        /\ \A i \in 1..Len(ctree) : ctree[i].doc_count_str = "unknown"

\* a run without statistics ended with a collection and a document of it in
\* the report
C33_Witness ==
    /\ ~cfg.include_stats
    /\ ed.pc = "done"
    /\ stats.documents > 0
    /\ \E k \in 1..(Len(ed.output) - 1) :
        /\ ed.output[k].t = "collection" /\ ed.output[k].s = "none"
        /\ ed.output[k + 1].t = "document"

\* the documents of a collection whose headers were emitted, in order
DescribedOf(path) == {i \in 1..Len(described) : described[i].path = path}

(***************************************************************************)
(* C34: every document-sample fetch is issued with limit max_docs; at most *)
(* max_docs document headers are emitted for a collection; and the         *)
(* documents counter never exceeds max_docs times the collections counter. *)
(***************************************************************************)
C34_SampleBounded ==
    /\ call.op.kind = "stream" => call.op.limit = cfg.max_docs
    /\ worker.op.kind = "stream" => worker.op.limit = cfg.max_docs
    /\ \A i \in 1..Len(described) :
        Cardinality(DescribedOf(described[i].path)) <= cfg.max_docs
    /\ Len(described) = stats.documents
    /\ stats.documents <= cfg.max_docs * stats.collections

\* a collection holding more documents than max_docs was sampled, and
\* exactly max_docs of its documents were described
C34_Witness ==
    /\ ed.pc = "done"
    /\ \E i \in 1..Len(described) :
        /\ Len(ColAt(cfg.store, described[i].path).docs) > cfg.max_docs
        /\ Cardinality(DescribedOf(described[i].path)) = cfg.max_docs

\* the step on which a call of the store client made by process_collection
\* itself (db.collection(path), doc.to_dict()) raises
ClientRaises ==
    /\ stack # <<>> /\ Top.pc \in {"enter", "doc"}
    /\ faults' = faults + 1

(***************************************************************************)
(* C35: an exception raised while a collection is processed, outside the   *)
(* bounded calls, is caught inside process_collection: the lines already   *)
(* emitted are kept, exactly one marker line is appended, and              *)
(* process_collection returns normally to its caller; when the exception   *)
(* is of neither of the classes handled apart (PermissionDenied, the       *)
(* module's TimeoutError) the marker is an error marker and the errors     *)
(* counter grows by exactly 1, no other counter changing.                  *)
(***************************************************************************)
C35_UnexpectedExceptionContained ==
    [][ClientRaises =>
        LET f == stack'[Len(stack')]
            new == f.output_lines[Len(f.output_lines)]
        IN /\ Len(stack') = Len(stack)
           /\ f.pc = "return" /\ f.exc = "None"
           /\ f.path = Top.path
           /\ Len(f.output_lines) = Len(Top.output_lines) + 1
           /\ f.output_lines = Append(Top.output_lines, new)
           /\ new.t \in {"col_error", "docs_error", "col_timeout", "docs_timeout",
                         "docs_permission_denied"}
           /\ new.s = "Exception" => new.t \in {"col_error", "docs_error"}
           /\ new.t \in {"col_error", "docs_error"}
                 => stats' = [stats EXCEPT !.errors = @ + 1]
           /\ ed' = ed /\ ctree' = ctree]_vars

\* to_dict() raised an Exception in the first root collection after one of
\* its documents had been described; the report keeps that document, holds
\* one error marker and one counted error, and goes on with the second root
C35_Witness ==
    /\ ed.pc = "done"
    /\ stats.errors = 1
    /\ Len(ed.collections) > 1
    /\ \E h \in HeadersOf(ed.output, <<ed.collections[1]>>) :
       \E k \in HeadersOf(ed.output, <<ed.collections[2]>>) :
       \E m \in (h + 2)..(k - 1) :
        /\ ed.output[h + 1].t = "document"
        /\ ed.output[m].t = "docs_error" /\ ed.output[m].s = "Exception"
        /\ \A q \in 1..Len(ed.output) :
            ed.output[q].t \in {"col_error", "docs_error"} => q = m

\* the step on which the caller of a bounded call takes an outcome whose
\* operation raised PermissionDenied
PermissionOutcomeTaken ==
    /\ call.state = "returned"
    /\ ~call.ret.timed_out
    /\ IsPermissionDenied(call.ret.error)
    /\ call' # call

(***************************************************************************)
(* C36: a PermissionDenied raised by the operation of any bounded remote   *)
(* call (count query, document sample, child-collection listing, root      *)
(* listing) is told apart from a generic error and reaches the code that   *)
(* made the call as a permission failure: what that code appends on it is  *)
(* the permission-denied marker, never a generic error marker or a plain   *)
(* continuation.                                                           *)
(***************************************************************************)
C36_PermissionDeniedReraised ==
    [][PermissionOutcomeTaken =>
        /\ Len(AllLines') = Len(AllLines) + 1
        /\ AllLines' = Append(AllLines, AllLines'[Len(AllLines')])
        /\ AllLines'[Len(AllLines')].t = "permission_denied"]_vars

\* the number of lines of a kind in the report
LinesOfKind(kind) == Cardinality({k \in 1..Len(ed.output) : ed.output[k].t = kind})

(***************************************************************************)
(* C37: when explore_database has returned, the collections counter equals *)
(* the number of collection header lines of the report and the number of   *)
(* entries of the summary map, the documents counter equals the number of  *)
(* document header lines, and the fields counter equals the number of      *)
(* field lines (a collection whose handle cannot be built gets neither a   *)
(* header nor a count, so the equalities hold in every run).               *)
(***************************************************************************)
C37_CountersMatchReport ==
    ed.pc = "done" =>
        /\ stats.collections = LinesOfKind("collection")
        /\ stats.collections = Len(ctree)
        /\ \A i, j \in 1..Len(ctree) : ctree[i].path = ctree[j].path => i = j
        /\ stats.documents = LinesOfKind("document")
        /\ stats.fields = LinesOfKind("field")

\* a run ended in which no collection handle failed, with several
\* collections, several documents, and a field nested in a map counted
C37_Witness ==
    /\ ed.pc = "done"
    /\ \A k \in 1..Len(ed.output) : ed.output[k].t \notin {"col_error", "col_timeout"}
    /\ stats.collections >= 3
    /\ stats.documents >= 3
    /\ \E k \in 1..(Len(ed.output) - 1) :
        /\ ed.output[k].t = "field" /\ ed.output[k].ty = <<"map">>
        /\ ed.output[k + 1].t = "field" /\ ed.output[k + 1].n > ed.output[k].n

\* the step on which process_collection, called for a child collection that
\* a listing returned, returns at once without a line
ChildDropped ==
    /\ Len(stack) > 1 /\ AtEntry
    /\ Len(stack') = Len(stack)
    /\ stack'[Len(stack)].pc = "return"
    /\ stack'[Len(stack)].output_lines = <<>>

(***************************************************************************)
(* C38: every child collection a successful child-collection listing       *)
(* returns is explored, or was in the visited set already when its turn    *)
(* came; and no listing is requested at a level whose children the depth   *)
(* guard would reject.                                                     *)
(***************************************************************************)
C38_ListedChildrenExplored ==
    /\ [][ChildDropped => Top.path \in processed]_vars
    /\ []((call.state = "waiting" /\ call.op.kind = "list_subs")
            => Top.level + 2 < cfg.max_depth)

\* the (collection, document) pairs of an exported structure
ExportedUnder(collections_data) ==
    UNION {{[path |-> collections_data[c].key, id |-> collections_data[c].value[d].key] :
                d \in 1..Len(collections_data[c].value)} :
           c \in 1..Len(collections_data)}

\* the (collection, document) pairs the traversal sampled and described
SampledFrom == {[path |-> described[k].path, id |-> described[k].id] :
                    k \in 1..Len(described)}

(***************************************************************************)
(* C39: in the json export of a report every document is recorded under    *)
(* the collection it was sampled from, and every sampled document is       *)
(* recorded: a document of a parent collection whose header follows the    *)
(* block of an earlier sibling's subcollection is recorded under the       *)
(* parent, not under that subcollection.                                   *)
(***************************************************************************)
C39_ExportedUnderOwnCollection ==
    JsonExported =>
        /\ ExportedUnder(mn.file.val) \subseteq SampledFrom
        /\ SampledFrom \subseteq ExportedUnder(mn.file.val)

TreeReturned == pf.kind = "generate_ascii_tree" /\ pf.pc = "returned"

\* the positions of the subcollection lines of a rendered tree
SubcolPositions(tree) == {q \in 1..Len(tree) : tree[q].kind = "subcol"}

\* the summaries whose path is collection/document/subcollection
ThreeSegment(summaries) == {k \in 1..Len(summaries) : Len(summaries[k].path) = 3}

(***************************************************************************)
(* C40: every subcollection line of the rendered tree stands for exactly   *)
(* one summary whose path has exactly three segments, carrying the last    *)
(* segment of that path and that summary's count, so the tree has as many  *)
(* subcollection lines as there are such summaries; a summary whose path   *)
(* has more than three segments adds no subcollection line.                *)
(***************************************************************************)
C40_SubcollectionLinesAreThreeSegment ==
    TreeReturned =>
        /\ Cardinality(SubcolPositions(pf.tree)) = Cardinality(ThreeSegment(ctree))
        /\ \A q \in SubcolPositions(pf.tree) :
            \E k \in ThreeSegment(ctree) :
                /\ pf.tree[q].name = ctree[k].path[3]
                /\ pf.tree[q].n = ctree[k].doc_count

====
